---- MODULE Spec2Model ----
(***************************************************************************)
(* Model of the sanitize / extract / clean / import pipeline of            *)
(* suraj_edition (utils/import_to_sql.py, utils/extract_data.py, main.py), *)
(* with the CRDC import script (OscarAnalytics/SCRIPTS/sqlImport.py) and   *)
(* the consensus script (consensus.py) as two further components.          *)
(* Strings are sequences of one-character strings, so that the regular     *)
(* expressions and slices of the code are computed, not assumed.           *)
(***************************************************************************)
EXTENDS Integers, Sequences, FiniteSets, TLC

VARIABLES
    (* sanitizer call: sanitize_identifier(name, is_column); header is the raw *)
    (* header row of the de-duplication loop                                   *)
    san_pc, name, is_column, result, header,
    (* Loader: import_cleaned_data_to_postgres *)
    pc,               \* position in the function: start, schema, list, loop, create,
                      \* catalog, copy, returned, raised
    schema_name,      \* the schema_name argument
    cleaned_is_dir,   \* whether cleaned_data_folder_path is a directory
    cleaned_files,    \* the files of the cleaned directory
    db,               \* the connection and the store behind it
    files_to_import,  \* the files the for loop has still to process, in order
    file_path,        \* the file of the current iteration of the loop
    import_status,    \* the mapping the function builds and returns
    table_name, final_columns, db_columns,   \* locals of the loop body
    fault,            \* the fault the environment raised in the last step
    before,           \* the tables of the store when the loop body started on file_path
    faults_used, runs,
    loaded,           \* per file name, how many imports of it were committed
    conn_error,       \* a connection-level error was raised in this invocation
    (* Collector: find_and_extract_data_files *)
    col_pc,           \* position in the function: start, loose, zips, members, returned
    folder_kind,      \* what folder_path is: dir, file, missing
    staging_ok,       \* extracted_data exists and is a directory after mkdir
    loose_files,      \* the files under the folder, outside the staging directory
    zip_files,        \* the ZIP archives of the top level of the folder
    extracted_data,   \* the staging directory: file name -> content
    loose_original_paths, top_level_items, zip_ref, members,   \* loops of the function
    all_data_file_paths,       \* the list the function builds
    target_filename_stem_ext, target_disk_path,   \* locals of the two loop bodies
    collected,        \* the list the function returned
    collect_runs,
    (* Normalizer: process_files_for_cleaning *)
    cln_pc,           \* position in the function: start, loop, returned
    input_is_dir,     \* whether input_folder_path is a directory
    mkdir_ok,         \* whether cleaned_data could be created
    staged_files,     \* the files of the input folder
    cleaned_data,     \* the output directory: file name -> content
    files_to_process, original_file_path,   \* the loop of the function
    processed_file_paths,      \* the list the function builds
    unique_paths,     \* the list the function returned
    cln_raised,       \* the last iteration ended in the except clause of line 213
    (* CRDC import script: OscarAnalytics/SCRIPTS/sqlImport.py, step 4 of main *)
    crdc_pc,          \* position: main, overwrite, import, raw, raised, done
    IMPORT_MODE,      \* args.mode
    crdc_store,       \* the tables of SCHEMA_NAME: name -> table
    crdc_work,        \* the files the walk has still to visit
    crdc_file,        \* the file of the current iteration
    crdc_tbl,         \* tbl, its table name
    crdc_call,        \* 1 while the call of handle_overwrite by import_excel_to_postgres is due
    crdc_before,      \* the tables when the iteration started
    crdc_answers,     \* what the user answered to the prompts of the iteration
    crdc_faults,      \* the calls of the store that raised in the iteration
    crdc_faults_used,
    (* consensus script: consensus.py, main *)
    cns_pc,           \* position: initial, critique, refine, raised, done
    agents, tasks,    \* len(agents), len(tasks)
    cns_k, cns_i, cns_j,     \* k of the loop over the tasks, i and j of the inner loops
    initial_responses, critiqued_responses, refined_responses,
    approved          \* per agent, the responses approved in its window for task k

san_vars == <<san_pc, name, is_column, result, header>>
load_vars == <<pc, schema_name, cleaned_is_dir, cleaned_files, db, files_to_import,
               file_path, import_status, table_name, final_columns, db_columns, fault,
               before, faults_used, runs, loaded, conn_error>>
col_vars == <<col_pc, folder_kind, staging_ok, loose_files, zip_files, extracted_data,
              loose_original_paths, top_level_items, zip_ref, members,
              all_data_file_paths, target_filename_stem_ext, target_disk_path,
              collected, collect_runs>>
cln_vars == <<cln_pc, input_is_dir, mkdir_ok, staged_files, cleaned_data, files_to_process,
              original_file_path, processed_file_paths, unique_paths, cln_raised>>
crdc_vars == <<crdc_pc, IMPORT_MODE, crdc_store, crdc_work, crdc_file, crdc_tbl, crdc_call,
               crdc_before, crdc_answers, crdc_faults, crdc_faults_used>>
cns_vars == <<cns_pc, agents, tasks, cns_k, cns_i, cns_j, initial_responses,
              critiqued_responses, refined_responses, approved>>
ext_vars == <<crdc_vars, cns_vars>>
vars == <<san_vars, load_vars, col_vars, cln_vars, ext_vars>>

-----------------------------------------------------------------------------
(* Bounds of the model.                                                    *)

MaxLen == 3
MaxCols == 3
MaxFiles == 2
MaxFaults == 1
MaxRuns == 2
MaxLoose == 2
MaxZips == 2
MaxCollectRuns == 2
MaxRows == 2
MaxBytes == 2
MaxStaged == 2

-----------------------------------------------------------------------------
(* Characters and Python's str / re character classes.                     *)

Lowers == <<"a","b","c","d","e","f","g","h","i","j","k","l","m",
            "n","o","p","q","r","s","t","u","v","w","x","y","z">>
Uppers == <<"A","B","C","D","E","F","G","H","I","J","K","L","M",
            "N","O","P","Q","R","S","T","U","V","W","X","Y","Z">>
AsciiDigits == {"0","1","2","3","4","5","6","7","8","9"}
AsciiLower == {Lowers[i] : i \in 1..26}
AsciiUpper == {Uppers[i] : i \in 1..26}
(* letters outside ASCII: alphanumeric for str.isalnum and for \w of a str pattern *)
NonAsciiLower == {"é"}
NonAsciiUpper == {"É"}

Range(s) == {s[i] : i \in 1..Len(s)}
Min(a, b) == IF a < b THEN a ELSE b

(* str.lower() on one character *)
LowerChar(c) ==
    IF c \in AsciiUpper THEN Lowers[CHOOSE i \in 1..26 : Uppers[i] = c]
    ELSE IF c = "É" THEN "é"
    ELSE c
Lower(s) == SubSeq([i \in 1..Len(s) |-> LowerChar(s[i])], 1, Len(s))

(* whitespace: str.strip() and \s *)
SpaceChars == {" "}
IsSpace(c) == c \in SpaceChars
(* \w of a Python 3 str pattern: Unicode alphanumerics and underscore *)
IsWord(c) == c \in AsciiLower \cup AsciiUpper \cup AsciiDigits
                   \cup NonAsciiLower \cup NonAsciiUpper \cup {"_"}
(* str.isdigit() *)
IsDigit(c) == c \in AsciiDigits
(* [\s.-] *)
SeparatorChars == SpaceChars \cup {".", "-"}
UnderscoreChars == {"_"}

(* s with leading and trailing characters of the class removed: str.strip *)
LStrip(s, class) ==
    IF \A i \in 1..Len(s) : s[i] \in class THEN <<>>
    ELSE SubSeq(s, CHOOSE i \in 1..Len(s) :
                      s[i] \notin class /\ \A j \in 1..(i-1) : s[j] \in class,
                Len(s))
RStrip(s, class) ==
    IF \A i \in 1..Len(s) : s[i] \in class THEN <<>>
    ELSE SubSeq(s, 1, CHOOSE i \in 1..Len(s) :
                         s[i] \notin class /\ \A j \in (i+1)..Len(s) : s[j] \in class)
StripClass(s, class) == RStrip(LStrip(s, class), class)

(* re.sub(r'[class]+', '_', s): every maximal run of the class becomes one "_" *)
RunsToUnderscore(s, class) ==
    LET marked == [i \in 1..Len(s) |->
                     IF s[i] \notin class THEN <<s[i]>>
                     ELSE IF i > 1 /\ s[i-1] \in class THEN <<>>
                     ELSE <<"_">>]
        NotEmpty(e) == e # <<>>
        kept == SelectSeq(marked, NotEmpty)
    IN [k \in 1..Len(kept) |-> kept[k][1]]

(* str(n) for n >= 0 *)
DigitChars == <<"0","1","2","3","4","5","6","7","8","9">>
RECURSIVE ToDecimal(_)
ToDecimal(n) ==
    IF n < 10 THEN <<DigitChars[n + 1]>>
    ELSE ToDecimal(n \div 10) \o <<DigitChars[(n % 10) + 1]>>

Pad(c, n) == [i \in 1..n |-> c]

-----------------------------------------------------------------------------
(* pathlib: name, stem and suffix of a path that has no separator.          *)

PathName(p) == IF p = <<".">> THEN <<>> ELSE p
LastDot(s) == IF \E i \in 1..Len(s) : s[i] = "."
              THEN CHOOSE i \in 1..Len(s) :
                      s[i] = "." /\ \A j \in (i+1)..Len(s) : s[j] # "."
              ELSE 0
(* PurePath.suffix: from the last dot, unless it is the first or the last character *)
Suffix(p) ==
    LET n == PathName(p)  i == LastDot(n)
    IN IF 1 < i /\ i < Len(n) THEN SubSeq(n, i, Len(n)) ELSE <<>>
(* PurePath.stem *)
Stem(p) ==
    LET n == PathName(p)  i == LastDot(n)
    IN IF 1 < i /\ i < Len(n) THEN SubSeq(n, 1, i - 1) ELSE n

-----------------------------------------------------------------------------
(* import_to_sql.py: sanitize_identifier                                   *)

MaxIdentLen == 63
TblPrefix == <<"t","b","l","_">>
ColPrefix == <<"c","o","l","_">>
Unnamed == <<"u","n","n","a","m","e","d">>

sanitize_identifier(raw, as_column) ==
    LET n0 == IF as_column THEN raw ELSE Stem(raw)
        n1 == Lower(StripClass(n0, SpaceChars))
        n2 == RunsToUnderscore(n1, SeparatorChars)
        n3 == SelectSeq(n2, IsWord)
        n4 == StripClass(RunsToUnderscore(n3, UnderscoreChars), UnderscoreChars)
        n5 == IF n4 = <<>> \/ IsDigit(n4[1])
              THEN (IF as_column THEN ColPrefix ELSE TblPrefix)
                       \o (IF n4 = <<>> THEN Unnamed ELSE n4)
              ELSE n4
    IN SubSeq(n5, 1, Min(Len(n5), MaxIdentLen))

(* f"{col_name}_{counter}" *)
Suffixed(col_name, counter) == col_name \o <<"_">> \o ToDecimal(counter)

(* the while loop of the header de-duplication: the first of col_name,       *)
(* col_name_1, col_name_2, ... that is not in seen_cols                      *)
unique_col_name_once(col_name, seen_cols) ==
    IF col_name \notin seen_cols THEN col_name ELSE Suffixed(col_name, 1)
unique_col_name(col_name, seen_cols) ==
    IF col_name \notin seen_cols THEN col_name
    ELSE LET k == CHOOSE k \in 1..(Cardinality(seen_cols) + 1) :
                     /\ Suffixed(col_name, k) \notin seen_cols
                     /\ \A j \in 1..(k - 1) : Suffixed(col_name, j) \in seen_cols
         IN Suffixed(col_name, k)

RECURSIVE DedupFrom(_, _)
DedupFrom(cols, final) ==
    IF cols = <<>> THEN final
    ELSE DedupFrom(Tail(cols), Append(final, unique_col_name(Head(cols), Range(final))))

(* sanitized_cols_temp and final_columns of a header row *)
FinalColumns(hdr) ==
    DedupFrom([i \in 1..Len(hdr) |-> sanitize_identifier(hdr[i], TRUE)], <<>>)

-----------------------------------------------------------------------------
(* The relational store as psycopg2 presents it: one connection that is not *)
(* in autocommit mode, so the first statement after a commit or rollback    *)
(* opens a transaction, a failed statement aborts it, and a transaction in  *)
(* the aborted state refuses every statement until it is rolled back.       *)
(* committed is what the store holds, working what the open transaction     *)
(* sees. A table is [cols, rows]: its ordered column list and row count.    *)

EmptyMap == [x \in {} |-> x]
Put(m, k, v) == [x \in DOMAIN m \cup {k} |-> IF x = k THEN v ELSE m[x]]

NoConnection == [conn |-> "none", txn |-> "idle", committed |-> EmptyMap, working |-> EmptyMap]

(* psycopg2.connect *)
Connected(d) == [d EXCEPT !.conn = "open", !.txn = "idle", !.working = d.committed]

(* cur.execute / cur.copy_expert: inj is the fault the environment raises in *)
(* this statement ("none", "db": the statement fails, "lost": the server is  *)
(* gone), statement_error the error the statement itself has ("none" if it   *)
(* has none), new_working the tables as the statement leaves them            *)
Execute(d, inj, statement_error, new_working) ==
    IF d.conn # "open" THEN [db |-> d, err |-> "connection_already_closed"]
    ELSE IF inj = "lost"
    THEN [db |-> [d EXCEPT !.conn = "broken", !.txn = "idle", !.working = d.committed],
          err |-> "server_closed_the_connection"]
    ELSE IF d.txn = "aborted" THEN [db |-> d, err |-> "current_transaction_is_aborted"]
    ELSE IF inj = "db" THEN [db |-> [d EXCEPT !.txn = "aborted"], err |-> "statement_failed"]
    ELSE IF statement_error # "none"
    THEN [db |-> [d EXCEPT !.txn = "aborted"], err |-> statement_error]
    ELSE [db |-> [d EXCEPT !.txn = "open", !.working = new_working], err |-> "none"]

(* conn.commit(): COMMIT of an aborted transaction rolls it back *)
Commit(d) ==
    IF d.conn # "open" THEN [db |-> d, err |-> "connection_already_closed"]
    ELSE IF d.txn = "aborted"
    THEN [db |-> [d EXCEPT !.txn = "idle", !.working = d.committed], err |-> "none"]
    ELSE [db |-> [d EXCEPT !.txn = "idle", !.committed = d.working], err |-> "none"]

(* conn.rollback(): raises on a connection that is closed or broken *)
Rollback(d) ==
    IF d.conn # "open" THEN [db |-> d, err |-> "connection_already_closed"]
    ELSE [db |-> [d EXCEPT !.txn = "idle", !.working = d.committed], err |-> "none"]

(* conn.close(): what was not committed is discarded *)
Close(d) == [d EXCEPT !.conn = "closed", !.txn = "idle", !.working = d.committed]

(* the store cuts an identifier to its limit *)
PgName(n) == SubSeq(n, 1, Min(Len(n), MaxIdentLen))

(* psycopg2.sql: the parts a statement is composed of. An Identifier is     *)
(* rendered between double quotes, a Literal between single quotes, and the   *)
(* text of an SQL part goes into the statement as it is.                      *)
Identifier(string) == [wrap |-> "Identifier", string |-> string]
Literal(string) == [wrap |-> "Literal", string |-> string]
SQL(string) == [wrap |-> "SQL", string |-> string]
RECURSIVE Doubled(_, _)
Doubled(string, quote) ==
    IF string = <<>> THEN <<>>
    ELSE (IF Head(string) = quote THEN <<quote, quote>> ELSE <<Head(string)>>)
            \o Doubled(Tail(string), quote)
part_as_string(part) ==
    CASE part.wrap = "Identifier" -> <<"\"">> \o Doubled(part.string, "\"") \o <<"\"">>
      [] part.wrap = "Literal" -> <<"'">> \o Doubled(part.string, "'") \o <<"'">>
      [] OTHER -> part.string
RECURSIVE as_string(_)
as_string(parts) ==
    IF parts = <<>> THEN <<>> ELSE part_as_string(Head(parts)) \o as_string(Tail(parts))

(* lines 153 and 242: ", ".join(f"{sql.Identifier(col).string} TEXT"): the  *)
(* string attribute of an Identifier is the name as it is, without quotes     *)
RECURSIVE column_definitions_str(_)
column_definitions_str(cols) ==
    IF cols = <<>> THEN <<>>
    ELSE Head(cols) \o <<" ","T","E","X","T">>
            \o (IF Len(cols) > 1 THEN <<",", " ">> ELSE <<>>)
            \o column_definitions_str(Tail(cols))
(* lines 155-159 and 243-245 *)
create_table_query(schema, t, cols) ==
    << SQL(<<"C","R","E","A","T","E"," ","T","A","B","L","E"," ","I","F"," ","N","O","T"," ","E","X","I","S","T","S"," ">>),
       Identifier(schema), SQL(<<".">>), Identifier(t), SQL(<<" ", "(">>),
       SQL(column_definitions_str(cols)), SQL(<<")", ";">>) >>
(* lines 185 and 273 *)
copy_query(schema, t) ==
    << SQL(<<"C","O","P","Y"," ">>), Identifier(schema), SQL(<<".">>), Identifier(t),
       SQL(<<" ","F","R","O","M"," ","S","T","D","I","N"," ","W","I","T","H"," ","C","S","V"," ","H","E","A","D","E","R"," ","D","E","L","I","M","I","T","E","R"," ","'",",","'"," ","Q","U","O","T","E"," ","'","\"","'",";">>) >>
(* lines 41-46 *)
columns_query(schema, t) ==
    << SQL(<<"S","E","L","E","C","T"," ","c","o","l","u","m","n","_","n","a","m","e"," ","F","R","O","M"," ","i","n","f","o","r","m","a","t","i","o","n","_","s","c","h","e","m","a",".","c","o","l","u","m","n","s"," ","W","H","E","R","E"," ","t","a","b","l","e","_","s","c","h","e","m","a"," ","="," ">>),
       Literal(schema), SQL(<<" ","A","N","D"," ","t","a","b","l","e","_","n","a","m","e"," ","="," ">>), Literal(t),
       SQL(<<" ","O","R","D","E","R"," ","B","Y"," ","o","r","d","i","n","a","l","_","p","o","s","i","t","i","o","n",";">>) >>
(* line 101 *)
create_schema_query(schema) ==
    << SQL(<<"C","R","E","A","T","E"," ","S","C","H","E","M","A"," ","I","F"," ","N","O","T"," ","E","X","I","S","T","S"," ">>), Identifier(schema), SQL(<<";">>) >>

(* some of the key words the store reserves: a statement with one of them as  *)
(* a name without quotes is a syntax error                                    *)
ReservedWords == { <<"o","r","d","e","r">>, <<"u","s","e","r">> }

(* CREATE TABLE IF NOT EXISTS schema.table (col TEXT, ...) *)
CreateTableReplace(tables, t, cols) ==
    Put(tables, PgName(t), [cols |-> [i \in 1..Len(cols) |-> PgName(cols[i])], rows |-> 0])
CreateTable(tables, t, cols) ==
    IF PgName(t) \in DOMAIN tables THEN tables
    ELSE Put(tables, PgName(t), [cols |-> [i \in 1..Len(cols) |-> PgName(cols[i])], rows |-> 0])
CreateTableError(tables, t, cols) ==
    IF \E i \in 1..Len(cols) : cols[i] \in ReservedWords THEN "syntax_error"
    ELSE IF /\ PgName(t) \notin DOMAIN tables
       /\ \E i, j \in 1..Len(cols) : i < j /\ PgName(cols[i]) = PgName(cols[j])
    THEN "column_specified_more_than_once" ELSE "none"

(* COPY schema.table FROM STDIN WITH CSV HEADER: appends the data rows *)
CopyReplace(tables, t, nrows) ==
    IF t \in DOMAIN tables THEN [tables EXCEPT ![t].rows = nrows] ELSE tables
Copy(tables, t, nrows) ==
    IF t \in DOMAIN tables THEN [tables EXCEPT ![t].rows = @ + nrows] ELSE tables
CopyError(tables, t) ==
    IF t \in DOMAIN tables THEN "none" ELSE "relation_does_not_exist"

-----------------------------------------------------------------------------
(* import_to_sql.py: _get_table_columns. None is the empty list: the code   *)
(* maps an empty result to None.                                            *)

get_table_columns(d, inj, t) ==
    LET r == Execute(d, inj, "none", d.working)
    IN [db |-> r.db,
        columns |-> IF r.err # "none" \/ t \notin DOMAIN r.db.working THEN <<>>
                    ELSE r.db.working[t].cols]

-----------------------------------------------------------------------------
(* import_to_sql.py: import_cleaned_data_to_postgres                        *)

error_summary == <<"e","r","r","o","r","_","s","u","m","m","a","r","y">>
summary_no_target_files == <<"s","u","m","m","a","r","y","_","n","o","_","t","a","r","g","e","t",
                             "_","f","i","l","e","s">>
database_error_summary == <<"d","a","t","a","b","a","s","e","_","e","r","r","o","r","_",
                            "s","u","m","m","a","r","y">>
unexpected_error_summary == <<"u","n","e","x","p","e","c","t","e","d","_","e","r","r","o","r","_",
                              "s","u","m","m","a","r","y">>
DotCsv == <<".","c","s","v">>
DotXlsx == <<".","x","l","s","x">>
DotXls == <<".","x","l","s">>
DotTxt == <<".","t","x","t">>
(* the default of the target_extensions argument *)
target_extensions == {DotCsv, DotXlsx, DotXls, DotTxt}

(* a value of import_status: kind is the message, the other fields what the  *)
(* message shows                                                             *)
Outcome(kind, t, fc, dc, text) ==
    [kind |-> kind, table |-> t, file_cols |-> fc, db_cols |-> dc, text |-> text]
Summary(text) == Outcome("summary", <<>>, <<>>, <<>>, text)

(* the except clauses and the finally clause of the function (lines 283-298): *)
(* what it returns, or that it raises because conn.rollback() raised in the   *)
(* clause                                                                     *)
OuterExcept(d, status, key, text) ==
    LET rb == IF d.conn = "none" THEN [db |-> d, err |-> "none"] ELSE Rollback(d)
    IN IF rb.err # "none"
       THEN [db |-> Close(d), import_status |-> status, pc |-> "raised"]
       ELSE [db |-> IF d.conn = "none" THEN d ELSE Close(rb.db),
             import_status |-> Put(status, key, Summary(text)),
             pc |-> "returned"]

(* an except clause of the loop body: conn.rollback(), then the entry of the  *)
(* file and the next iteration. The exception conn.rollback() raises leaves   *)
(* the loop for the except clauses of the function.                           *)
ExceptClauseNoRollback(d, status, fname, outcome) ==
    [db |-> d, import_status |-> Put(status, fname, outcome), pc |-> "loop"]
ExceptClause(d, status, fname, outcome) ==
    LET rb == Rollback(d)
    IN IF rb.err # "none"
       THEN OuterExcept(d, status, database_error_summary, rb.err)
       ELSE [db |-> rb.db, import_status |-> Put(status, fname, outcome), pc |-> "loop"]

(* final_columns != db_columns *)
ColumnSetsDiffer(file_cols, live_cols) == Range(file_cols) # Range(live_cols)
ColumnsDiffer(file_cols, live_cols) == file_cols # live_cols

IsExcel(f) == Lower(Suffix(f.fname)) \in {DotXls, DotXlsx}
IsCsv(f) == Lower(Suffix(f.fname)) = DotCsv
DbErrorKind(f) == IF IsExcel(f) THEN "excel_error" ELSE "db_error"
FileErrorKind(f) == IF IsExcel(f) THEN "excel_error" ELSE "non_db_error"
SuccessKind(f) == IF IsExcel(f) THEN "success_excel" ELSE "success"

(* main.py: the schema the script passes, and the default of the argument *)
CRDCdata == <<"C","R","D","C","d","a","t","a">>
public == <<"p","u","b","l","i","c">>
SchemaNames == {CRDCdata, public}

(* the files a cleaned directory can hold: name, raw header cells, data rows *)
File(n, h, r) == [fname |-> n, header |-> h, nrows |-> r]
NoFile == File(<<>>, <<>>, 0)
F_t_csv == File(<<"t",".","c","s","v">>, << <<"A">>, <<"b">> >>, 2)
F_T_csv == File(<<"T",".","c","s","v">>, << <<"b">>, <<"a">> >>, 1)
F_t_xlsx == File(<<"t",".","x","l","s","x">>, << <<"a">>, <<"b">>, <<"c">> >>, 1)
F_w_csv == File(<<"w",".","c","s","v">>,
                << Pad("a", MaxIdentLen), Pad("a", MaxIdentLen) >>, 1)
F_n_txt == File(<<"n",".","t","x","t">>, << <<"a">> >>, 1)
F_e_xlsx == File(<<"e",".","x","l","s","x">>, << <<"a">> >>, 0)
F_summary_csv == File(<<"s","u","m","m","a","r","y",".","c","s","v">>, << <<"a">> >>, 1)
F_o_csv == File(<<"o",".","c","s","v">>, << <<"O","r","d","e","r">>, <<"a">> >>, 1)
FileUniverse == {F_t_csv, F_T_csv, F_t_xlsx, F_w_csv, F_n_txt, F_e_xlsx, F_summary_csv,
                 F_o_csv}
FileNames == {f.fname : f \in FileUniverse}

(* main.py, lines 107-118: the totals of the import summary. A status is    *)
(* written by its kind; the two kinds of success are the statuses that hold  *)
(* "Successfully imported".                                                  *)
Contains(s, sub) ==
    \E i \in 0..(Len(s) - Len(sub)) : SubSeq(s, i + 1, i + Len(sub)) = sub
summary == <<"s","u","m","m","a","r","y">>
SuccessfullyImported(status) == status.kind \in {"success", "success_excel"}
successful_imports(import_results) ==
    Cardinality({filename \in DOMAIN import_results :
                    SuccessfullyImported(import_results[filename])})
failed_imports(import_results) ==
    Cardinality({filename \in DOMAIN import_results :
                    /\ ~SuccessfullyImported(import_results[filename])
                    /\ ~Contains(filename, error_summary)
                    /\ ~Contains(filename, unexpected_error_summary)
                    /\ ~Contains(filename, database_error_summary)
                    /\ ~Contains(filename, summary)})

NoFault == <<"none", "none">>
Charge(inj) == IF inj = "none" THEN faults_used ELSE faults_used + 1
MayRaise(inj) == inj = "none" \/ faults_used < MaxFaults

Orders(S) == {q \in [1..Cardinality(S) -> S] : \A i, j \in 1..Cardinality(S) : i # j => q[i] # q[j]}

-----------------------------------------------------------------------------
(* extract_data.py: the file names of the staging directory                *)

MaxLenBase == 50
UnnamedFile == <<"u","n","n","a","m","e","d","_","f","i","l","e">>
DotZip == <<".","z","i","p">>
ExtractedDataName == <<"e","x","t","r","a","c","t","e","d","_","d","a","t","a">>

(* _sanitize_and_shorten_filename(base_name, original_extension)            *)
sanitize_and_shorten_filename(base_name, original_extension) ==
    LET s0 == Lower(base_name)
        (* re.sub(r'\s+|-+|\.+', '_', s): a run of one of the three classes *)
        s1 == RunsToUnderscore(RunsToUnderscore(RunsToUnderscore(s0, SpaceChars),
                                                {"-"}), {"."})
        s2 == SelectSeq(s1, IsWord)
        s3 == StripClass(RunsToUnderscore(s2, UnderscoreChars), UnderscoreChars)
        s4 == IF s3 = <<>> THEN UnnamedFile ELSE s3
        s5 == IF Len(s4) > MaxLenBase
              THEN StripClass(SubSeq(s4, 1, MaxLenBase), UnderscoreChars)
              ELSE s4
    IN s5 \o Lower(original_extension)

(* os.path.splitext: the extension starts at the last dot that has a       *)
(* character other than a dot before it                                     *)
splitext(p) ==
    LET i == LastDot(p)
    IN IF i > 0 /\ \E j \in 1..(i - 1) : p[j] # "."
       THEN <<SubSeq(p, 1, i - 1), SubSeq(p, i, Len(p))>>
       ELSE <<p, <<>> >>

(* the while loop of _generate_unique_filename; directory is the set of the *)
(* names for which (directory / name).exists()                              *)
RECURSIVE UniqueFrom(_, _, _, _)
UniqueFrom(directory, base_filename, prospective_name, counter) ==
    IF prospective_name \notin directory THEN prospective_name
    ELSE UniqueFrom(directory, base_filename,
                    splitext(base_filename)[1] \o <<"_">> \o ToDecimal(counter)
                        \o splitext(base_filename)[2],
                    counter + 1)

generate_unique_filename_overwrite(directory, base_filename, original_extension) ==
    base_filename
(* _generate_unique_filename(directory, base_filename, original_extension)  *)
generate_unique_filename(directory, base_filename, original_extension) ==
    UniqueFrom(directory, base_filename, base_filename, 1)

(* the name of a ZIP member: Path(member_info.filename).name               *)
LastSlash(s) == IF \E i \in 1..Len(s) : s[i] = "/"
                THEN CHOOSE i \in 1..Len(s) :
                        s[i] = "/" /\ \A j \in (i+1)..Len(s) : s[j] # "/"
                ELSE 0
MemberName(p) ==
    LET q == RStrip(p, {"/"})
    IN SubSeq(q, LastSlash(q) + 1, Len(q))

(* sorted(list(set(paths))): the paths differ in the file name only, and   *)
(* str compares code point by code point                                     *)
CodePoints == <<" ", "-", ".", "/", "0","1","2","3","4","5","6","7","8","9",
                "A","B","C","D","E","F","G","H","I","J","K","L","M",
                "N","O","P","Q","R","S","T","U","V","W","X","Y","Z", "_",
                "a","b","c","d","e","f","g","h","i","j","k","l","m",
                "n","o","p","q","r","s","t","u","v","w","x","y","z", "É", "é">>
Ord(c) == CHOOSE i \in 1..Len(CodePoints) : CodePoints[i] = c
StrLess(a, b) ==
    \E k \in 1..(Min(Len(a), Len(b)) + 1) :
        /\ \A j \in 1..(k - 1) : a[j] = b[j]
        /\ IF k > Len(a) THEN k <= Len(b)
           ELSE k <= Len(b) /\ Ord(a[k]) < Ord(b[k])
RECURSIVE SortedList(_)
SortedList(S) ==
    IF S = {} THEN <<>>
    ELSE LET m == CHOOSE x \in S : \A y \in S : x = y \/ StrLess(x, y)
         IN <<m>> \o SortedList(S \ {m})

(* the source folder: loose files with the directories between the folder   *)
(* and the file, and the ZIP archives of its top level                      *)
(* readable: whether the copy can open the file *)
LooseFile(d, n, c, r) == [dir |-> d, fname |-> n, content |-> c, readable |-> r]
(* intact: whether the data of the member can be read to its end *)
Member(n, isdir, c, ok) == [filename |-> n, is_dir |-> isdir, content |-> c, intact |-> ok]
ZipFile(n, ok, m) == [fname |-> n, readable |-> ok, infolist |-> m]
NoZip == ZipFile(<<>>, FALSE, <<>>)

L_Ab == LooseFile(<<>>, <<"A"," ","b",".","c","s","v">>, "L_Ab", TRUE)
L_a_b == LooseFile(<<>>, <<"a","-","b",".","c","s","v">>, "L_a_b", TRUE)
L_a_b_1 == LooseFile(<<>>, <<"a","_","b","_","1",".","c","s","v">>, "L_a_b_1", TRUE)
L_z_x == LooseFile(<< <<"z">> >>, <<"x",".","c","s","v">>, "L_z_x", TRUE)
L_n_pdf == LooseFile(<<>>, <<"n",".","p","d","f">>, "L_n_pdf", TRUE)
L_wf == LooseFile(<<>>, Pad("w", MaxLenBase) \o <<"f",".","c","s","v">>, "L_wf", TRUE)
L_u == LooseFile(<<>>, <<"u",".","c","s","v">>, "L_u", FALSE)
LooseUniverse == {L_Ab, L_a_b, L_a_b_1, L_z_x, L_n_pdf, L_wf, L_u}

Z_z == ZipFile(<<"z",".","z","i","p">>, TRUE,
               << Member(<<"x",".","c","s","v">>, FALSE, "Z_z_x", TRUE),
                  Member(<<"k","/">>, TRUE, "Z_z_k", TRUE),
                  Member(<<"k","/","x",".","C","S","V">>, FALSE, "Z_z_k_x", TRUE),
                  Member(<<"r",".","p","d","f">>, FALSE, "Z_z_r", TRUE) >>)
Z_a == ZipFile(<<"a",".","z","i","p">>, TRUE,
               << Member(<<"b",".","c","s","v">>, FALSE, "Z_a_b", TRUE),
                  Member(<<"c",".","c","s","v">>, FALSE, "Z_a_c", FALSE) >>)
Z_y == ZipFile(<<"y",".","z","i","p">>, FALSE, <<>>)
ZipUniverse == {Z_z, Z_a, Z_y}

(* the files of the staging directory, as the recursive scan meets them     *)
StagedAsLoose(staged) ==
    {LooseFile(<<ExtractedDataName>>, n, staged[n], TRUE) : n \in DOMAIN staged}
CleanedDataName == <<"c","l","e","a","n","e","d","_","d","a","t","a">>
(* the files of cleaned_data, which main.py puts into the source folder *)
CleanedAsLoose(cleaned) ==
    {LooseFile(<<CleanedDataName>>, n, cleaned[n].rows, TRUE) : n \in DOMAIN cleaned}
is_excluded_never(item) == FALSE
(* item.relative_to(excluded_dir_path) succeeds *)
is_excluded(item) == Len(item.dir) > 0 /\ item.dir[1] = ExtractedDataName
(* _scan_directory_recursively_for_data_files, as a set: rglob fixes no order *)
scan_directory_recursively_for_data_files(items, file_extensions) ==
    {item \in items : ~is_excluded(item) /\ Lower(Suffix(item.fname)) \in file_extensions}

CollectCommon ==
    /\ extracted_data = EmptyMap
    /\ loose_original_paths = <<>>
    /\ top_level_items = <<>>
    /\ zip_ref = NoZip
    /\ members = <<>>
    /\ all_data_file_paths = <<>>
    /\ target_filename_stem_ext = <<>>
    /\ target_disk_path = <<>>
    /\ collected = <<>>
    /\ collect_runs = 1

CollectIdle ==
    /\ col_pc = "idle"
    /\ folder_kind = "missing"
    /\ staging_ok = FALSE
    /\ loose_files = {}
    /\ zip_files = {}
    /\ CollectCommon

-----------------------------------------------------------------------------
(* clean_data.py: the header and the cells of a CSV file. A CSV file is the  *)
(* rows csv.reader yields from it, a row the list of its cells.              *)

(* the characters str.strip() removes *)
StrWhitespace == {" ", "\t", "\n", "\r"}
HeaderWindow == 5

(* str.replace(old, new) for a one-character old *)
ReplaceChar(s, old, new) == [i \in 1..Len(s) |-> IF s[i] = old THEN new ELSE s[i]]
(* str.replace('\r\n', ' ') *)
RECURSIVE ReplaceCrLf(_)
ReplaceCrLf(s) ==
    IF Len(s) < 2 THEN s
    ELSE IF s[1] = "\r" /\ s[2] = "\n" THEN <<" ">> \o ReplaceCrLf(SubSeq(s, 3, Len(s)))
    ELSE <<s[1]>> \o ReplaceCrLf(Tail(s))

(* _sanitize_column_name(name) *)
sanitize_column_name(raw) ==
    LET n1 == Lower(StripClass(raw, StrWhitespace))
        n2 == ReplaceChar(ReplaceChar(n1, " ", "_"), "-", "_")
        n3 == SelectSeq(n2, IsWord)
        n4 == IF n3 = <<>> \/ IsDigit(n3[1])
              THEN ColPrefix \o (IF n3 = <<>> THEN Unnamed ELSE n3)
              ELSE n3
    IN SubSeq(n4, 1, Min(Len(n4), MaxIdentLen))

(* lines 80-91: sanitized_header_temp and final_header *)
final_header(hdr) ==
    DedupFrom([i \in 1..Len(hdr) |-> sanitize_column_name(hdr[i])], <<>>)

(* any(cell.strip() for cell in row) *)
IsBlankCell(cell) == \A i \in 1..Len(cell) : cell[i] \in StrWhitespace
HasContent(row) == \E i \in 1..Len(row) : ~IsBlankCell(row[i])

(* line 99, with '\r\n' left to the two replacements that follow *)
clean_cell_no_crlf(cell) ==
    ReplaceChar(ReplaceChar(StripClass(cell, StrWhitespace), "\n", " "), "\r", " ")
(* line 99: str(cell).strip().replace('\r\n',' ').replace('\n',' ').replace('\r',' ') *)
clean_cell(cell) ==
    ReplaceChar(ReplaceChar(ReplaceCrLf(StripClass(cell, StrWhitespace)), "\n", " "),
                "\r", " ")
cleaned_row(row) == [i \in 1..Len(row) |-> clean_cell(row[i])]

(* lines 73-77: the rows the search for the header takes from the reader,    *)
(* and the header it finds (the empty row when it finds none)                *)
HeaderIndex_first_row(rows) ==
    IF rows # <<>> /\ HasContent(rows[1]) THEN 1 ELSE 0
HeaderIndex(rows) ==
    IF \E i \in 1..Min(Len(rows), HeaderWindow) : HasContent(rows[i])
    THEN CHOOSE i \in 1..Min(Len(rows), HeaderWindow) :
            HasContent(rows[i]) /\ \A j \in 1..(i - 1) : ~HasContent(rows[j])
    ELSE 0
Consumed(rows) == IF HeaderIndex(rows) # 0 THEN HeaderIndex(rows)
                  ELSE Min(Len(rows), HeaderWindow)

(* lines 97-100: the rows written after the header *)
WrittenRows(rows) ==
    LET kept == SelectSeq(rows, HasContent)
    IN [i \in 1..Len(kept) |-> cleaned_row(kept[i])]

(* clean_csv_file on the rows the reader yields before it raises (all of     *)
(* them when it does not): the rows of the output file                        *)
clean_csv_file(rows) ==
    (IF HeaderIndex(rows) # 0 THEN <<final_header(rows[HeaderIndex(rows)])>> ELSE <<>>)
        \o WrittenRows(SubSeq(rows, Consumed(rows) + 1, Len(rows)))

(* clean_data.py: the encodings of a text file. A byte is written by its two *)
(* hexadecimal digits, a decoded character by itself or by its code point.   *)
RECURSIVE Utf8Valid(_)
Utf8Valid(bytes) ==
    IF bytes = <<>> THEN TRUE
    ELSE IF bytes[1] = "41" THEN Utf8Valid(Tail(bytes))
    ELSE IF bytes[1] = "C3" /\ Len(bytes) >= 2 /\ bytes[2] \in {"80", "81", "A9"}
    THEN Utf8Valid(SubSeq(bytes, 3, Len(bytes)))
    ELSE FALSE
RECURSIVE Utf8Text(_)
Utf8Text(bytes) ==
    IF bytes = <<>> THEN <<>>
    ELSE IF bytes[1] = "41" THEN <<"A">> \o Utf8Text(Tail(bytes))
    ELSE <<CASE bytes[2] = "80" -> "À" [] bytes[2] = "81" -> "Á" [] OTHER -> "é">>
             \o Utf8Text(SubSeq(bytes, 3, Len(bytes)))
Cp1252Char(b) == CASE b = "41" -> "A" [] b = "C3" -> "Ã" [] b = "A9" -> "©"
                   [] b = "80" -> "€" [] OTHER -> "undefined"
Latin1Char(b) == CASE b = "41" -> "A" [] b = "C3" -> "Ã" [] b = "A9" -> "©"
                   [] b = "80" -> "U+0080" [] OTHER -> "U+0081"
(* bytes.decode(enc) does not raise UnicodeDecodeError *)
Decodable(enc, bytes) ==
    CASE enc = "utf-8" -> Utf8Valid(bytes)
      [] enc = "cp1252" -> \A i \in 1..Len(bytes) : Cp1252Char(bytes[i]) # "undefined"
      [] OTHER -> TRUE
(* bytes.decode(enc) *)
Decoded(enc, bytes) ==
    CASE enc = "utf-8" -> Utf8Text(bytes)
      [] enc = "cp1252" -> [i \in 1..Len(bytes) |-> Cp1252Char(bytes[i])]
      [] OTHER -> [i \in 1..Len(bytes) |-> Latin1Char(bytes[i])]

(* a staged file: its name, the rows of a CSV file, the bytes of a text file, *)
(* whether it can be opened (ok, unreadable, or flaky: the second open fails  *)
(* and no other), and the first row of a CSV file with a byte cp1252 does not *)
(* define (0: none)                                                           *)
StagedFile(n, r, b, io, bad) == [fname |-> n, rows |-> r, bytes |-> b, io |-> io, bad_row |-> bad]
NoStagedFile == StagedFile(<<>>, <<>>, <<>>, "ok", 0)
(* a file of cleaned_data: written by clean_csv_file, written as UTF-8 text,  *)
(* or copied                                                                  *)
CleanedCsv(rows) == [kind |-> "csv", rows |-> rows, text |-> <<>>, bytes |-> <<>>]
CleanedText(text) == [kind |-> "text", rows |-> <<>>, text |-> text, bytes |-> <<>>]
Copied(f) == [kind |-> "copy", rows |-> f.rows, text |-> <<>>, bytes |-> f.bytes]

fallback_encodings_latin_first == <<"latin-1", "cp1252", "iso-8859-15">>
(* line 183 *)
fallback_encodings == <<"cp1252", "latin-1", "iso-8859-15">>
(* lines 184-196: the encoding the loop stops at with content read, or none:  *)
(* the first open of the loop is the one that fails for a flaky file          *)
RECURSIVE FirstFallback(_, _)
FirstFallback(f, encs) ==
    IF encs = <<>> \/ f.io = "flaky" THEN "none"
    ELSE IF Decodable(Head(encs), f.bytes) THEN Head(encs)
    ELSE FirstFallback(f, Tail(encs))
(* lines 174-196: read_encoding *)
read_encoding(f) ==
    IF Decodable("utf-8", f.bytes) THEN "utf-8" ELSE FirstFallback(f, fallback_encodings)

(* the outcome of lines 169-214 for one file: whether the call raised into    *)
(* the except clause of line 213, and the file it left in cleaned_data (left  *)
(* is FALSE when it left none). fail_at is the row at which the reader of a   *)
(* CSV file raises (0: it does not).                                          *)
Result(raised, left, content) == [raised |-> raised, left |-> left, content |-> content]
ProcessCsv(f, fail_at) ==
    IF f.io = "unreadable" THEN Result(TRUE, FALSE, CleanedCsv(<<>>))
    ELSE IF fail_at # 0
    THEN Result(TRUE, TRUE, CleanedCsv(clean_csv_file(SubSeq(f.rows, 1, fail_at - 1))))
    ELSE Result(FALSE, TRUE, CleanedCsv(clean_csv_file(f.rows)))
ProcessText(f) ==
    IF f.io = "unreadable" THEN Result(TRUE, FALSE, CleanedText(<<>>))
    ELSE IF read_encoding(f) # "none"
    THEN Result(FALSE, TRUE, CleanedText(Decoded(read_encoding(f), f.bytes)))
    ELSE Result(FALSE, TRUE, Copied(f))
ProcessBinary(f) ==
    IF f.io = "unreadable" THEN Result(TRUE, FALSE, Copied(f))
    ELSE Result(FALSE, TRUE, Copied(f))
processed_text_extensions == {DotCsv, DotTxt}
ProcessFile(f, fail_at) ==
    IF Lower(Suffix(f.fname)) = DotCsv THEN ProcessCsv(f, fail_at)
    ELSE IF Lower(Suffix(f.fname)) \in processed_text_extensions THEN ProcessText(f)
    ELSE ProcessBinary(f)
(* the rows at which the reader can raise: the text layer decodes the file in *)
(* blocks, so the error comes at the row with the byte or at a row before it  *)
FailRows(f) == IF f.bad_row = 0 \/ Lower(Suffix(f.fname)) # DotCsv THEN {0} ELSE 1..f.bad_row

(* the staged files of the model *)
Cell_A == <<" ","A"," ">>
Cell_a == <<"a">>
Cell_brk == <<" ","x","\r","\n","y","\n","z"," ">>
Row_hdr == <<Cell_A, Cell_a>>
Row_blank == << <<" ">>, <<>> >>
Row_empty == <<>>
Row_brk == <<Cell_brk, <<"\r">> >>
Row_one == << <<"7">> >>
RowUniverse == {Row_hdr, Row_blank, Row_empty, Row_brk, Row_one}
BlankRows(n) == [i \in 1..n |-> Row_blank]
G_csv == <<"g",".","c","s","v">>
G_txt == <<"g",".","t","x","t">>
(* CSV files: no, one or HeaderWindow blank rows, then up to MaxRows rows *)
CsvFamily ==
    {f \in {StagedFile(G_csv, BlankRows(b) \o body, <<>>, "ok", bad) :
               b \in {0, 1, HeaderWindow},
               body \in UNION {[1..k -> RowUniverse] : k \in 0..MaxRows},
               bad \in 0..MaxRows} :
        f.bad_row <= Len(f.rows)}
Bytes == {"41", "C3", "A9", "80", "81"}
TextFamily ==
    {StagedFile(G_txt, <<>>, b, io, 0) :
        b \in UNION {[1..k -> Bytes] : k \in 0..MaxBytes}, io \in {"ok", "flaky"}}
S_c_csv == StagedFile(<<"c",".","c","s","v">>, <<Row_hdr, Row_brk>>, <<>>, "ok", 0)
S_d_csv == StagedFile(<<"d",".","c","s","v">>, <<Row_hdr, Row_one, Row_one>>, <<>>, "ok", 3)
S_u_csv == StagedFile(<<"u",".","c","s","v">>, <<Row_hdr>>, <<>>, "unreadable", 0)
S_t_txt == StagedFile(<<"t",".","t","x","t">>, <<>>, <<"80", "81">>, "ok", 0)
S_v_txt == StagedFile(<<"v",".","t","x","t">>, <<>>, <<"81">>, "unreadable", 0)
S_x_xlsx == StagedFile(<<"x",".","x","l","s","x">>, <<Row_hdr>>, <<>>, "ok", 0)
S_y_xls == StagedFile(<<"y",".","x","l","s">>, <<Row_hdr>>, <<>>, "unreadable", 0)
S_p_pdf == StagedFile(<<"p",".","p","d","f">>, <<>>, <<"41">>, "ok", 0)
StagedUniverse == {S_c_csv, S_d_csv, S_u_csv, S_t_txt, S_v_txt, S_x_xlsx, S_y_xls, S_p_pdf}

(***************************************************************************)
(* OscarAnalytics/SCRIPTS/sqlImport.py: the CRDC import script. A file is   *)
(* what the import functions read: for a CSV the cleaned file, for an Excel *)
(* file the converted CSV. header is its first line, nrows the number of    *)
(* lines after it; readable is whether clean_csv can decode the file.       *)
(***************************************************************************)
MaxCrdcFiles == 2
MaxCrdcFaults == 1
ImportModes == {"normal", "overwrite_all", "import_missing"}
RawFiles == <<"r","a","w","_","f","i","l","e","s">>

KeepWord(s) == SelectSeq(s, IsWord)
Underscored(s) == ReplaceChar(ReplaceChar(s, " ", "_"), "-", "_")
DigitPrefixed(s, prefix) == IF IsDigit(s[1]) THEN prefix \o s ELSE s
crdc_sanitize_column_name(col, index) ==
    IF KeepWord(Underscored(Lower(StripClass(col, StrWhitespace)))) = <<>>
    THEN <<"c","o","l","_">> \o ToDecimal(index)
    ELSE DigitPrefixed(KeepWord(Underscored(Lower(StripClass(col, StrWhitespace)))),
                       <<"c","o","l","_">>)
sanitize_table_name(file_basename) ==
    IF KeepWord(Underscored(Lower(file_basename))) = <<>>
    THEN <<"t","a","b","l","e">>
    ELSE DigitPrefixed(KeepWord(Underscored(Lower(file_basename))), <<"t","_">>)

CrdcFile(n, h, k, r) == [fname |-> n, header |-> h, nrows |-> k, readable |-> r]
NoCrdcFile == CrdcFile(<<>>, <<>>, 0, FALSE)
CrdcTable(src, c, k) == [source |-> src, cols |-> c, rows |-> k]
OldTable == CrdcTable(<<"o","l","d">>, << <<"k">> >>, 1)
RawTable(k) == CrdcTable(RawFiles, <<>>, k)

X_ab_csv == CrdcFile(<<"A"," ","b",".","c","s","v">>, << <<" ","X">>, <<>> >>, 2, TRUE)
X_ab_xlsx == CrdcFile(<<"a","-","b",".","x","l","s","x">>, << <<"1","y">> >>, 1, TRUE)
X_d_csv == CrdcFile(<<"d",".","c","s","v">>, << <<"a">>, <<"A">> >>, 1, TRUE)
X_e_csv == CrdcFile(<<"e",".","c","s","v">>, <<>>, 0, TRUE)
X_u_csv == CrdcFile(<<"u",".","c","s","v">>, << <<"a">> >>, 1, FALSE)
X_n_txt == CrdcFile(<<"n",".","t","x","t">>, <<>>, 0, TRUE)
CrdcUniverse == {X_ab_csv, X_ab_xlsx, X_d_csv, X_e_csv, X_u_csv, X_n_txt}
CrdcTables == {sanitize_table_name(Stem(f.fname)) : f \in CrdcUniverse \ {X_n_txt}}

(* what input() returns to the prompt of the normal mode *)
NoAnswer == <<"-">>
Answers == { <<"y">>, <<"Y">>, <<" ","y"," ">>, <<"n">>, <<>>, <<"y","e","s">> }

(* generate_create_table_sql: the column names of the new table *)
CreateColumns(h) == [i \in 1..Len(h) |-> crdc_sanitize_column_name(h[i], i - 1)]
(* the errors of lines 194-201 that the file or the store causes: next() on  *)
(* an empty file, a table of that name, two columns of one name              *)
CreateFails(store, t, h) ==
    \/ h = <<>>
    \/ t \in DOMAIN store
    \/ \E i, j \in 1..Len(h) : i # j /\ CreateColumns(h)[i] = CreateColumns(h)[j]
DropTable(store, t) == [u \in DOMAIN store \ {t} |-> store[u]]

(* table_exists: any error gives False *)
table_exists(store, t, fails) == ~fails /\ t \in DOMAIN store
(* whether handle_overwrite reaches input() *)
Prompts(mode, exists) == exists /\ mode = "normal"
(* whether handle_overwrite executes DROP TABLE *)
Drops_in_every_mode(mode, exists, ans) == exists
Drops(mode, exists, ans) ==
    /\ exists
    /\ \/ mode = "overwrite_all"
       \/ mode = "normal" /\ Lower(StripClass(ans, StrWhitespace)) = <<"y">>
(* the value handle_overwrite returns *)
handle_overwrite(mode, exists, ans, drop_fails) ==
    ~exists \/ (Drops(mode, exists, ans) /\ ~drop_fails)
StoreAfterOverwrite(store, t, mode, exists, ans, drop_fails) ==
    IF Drops(mode, exists, ans) /\ ~drop_fails THEN DropTable(store, t) ELSE store
(* lines 193-214: CREATE TABLE is committed before COPY starts, and a COPY   *)
(* that fails is not committed                                               *)
StoreAfterImport(store, t, f, create_fails, copy_fails) ==
    IF create_fails \/ CreateFails(store, t, f.header) THEN store
    ELSE Put(store, t, CrdcTable(f.fname, CreateColumns(f.header),
                                 IF copy_fails THEN 0 ELSE f.nrows))
Count(b) == IF b THEN 1 ELSE 0

CrdcIdle ==
    /\ crdc_pc = "idle"
    /\ IMPORT_MODE = "normal"
    /\ crdc_store = EmptyMap
    /\ crdc_work = <<>>
    /\ crdc_file = NoCrdcFile
    /\ crdc_tbl = <<>>
    /\ crdc_call = 0
    /\ crdc_before = EmptyMap
    /\ crdc_answers = <<>>
    /\ crdc_faults = 0
    /\ crdc_faults_used = 0
(***************************************************************************)
(* consensus.py, main: the loop over the tasks. Agents and positions of     *)
(* lists are numbered from 0 as in the code; a sequence holds the element   *)
(* of position j at j + 1.                                                  *)
(***************************************************************************)
MaxAgents == 3
MaxTasks == 2
MaxApprovals == 2
None == [none |-> TRUE]
(* the response the user approves in the window of agent i for task k *)
Response(i, k, x) == [agent |-> i, task |-> k, version |-> x]
(* agent.get_response(prompt): a string that depends on the agent and the prompt *)
get_response(i, prompt) == [agent |-> i, prompt |-> prompt]
critique_prompt(other_response) == [flaws_of |-> other_response]
RECURSIVE critiques_for_agent(_, _, _, _)
critiques_for_agent(critiqued, i, j, n) ==
    IF j >= n THEN <<>>
    ELSE (IF j # i THEN <<critiqued[j][i]>> ELSE <<>>)
            \o critiques_for_agent(critiqued, i, j + 1, n)
refine_prompt(critiques) == [criticism |-> critiques]
NoCritiques(n) == [i \in 0..(n - 1) |-> [j \in 0..(n - 1) |-> None]]

ConsensusIdle ==
    /\ cns_pc = "idle"
    /\ agents = 0
    /\ tasks = 0
    /\ cns_k = 0
    /\ cns_i = 0
    /\ cns_j = 0
    /\ initial_responses = <<>>
    /\ critiqued_responses = <<>>
    /\ refined_responses = <<>>
    /\ approved = <<>>

ExtIdle == CrdcIdle /\ ConsensusIdle

CleanCommon ==
    /\ cleaned_data = EmptyMap
    /\ files_to_process = <<>>
    /\ original_file_path = NoStagedFile
    /\ processed_file_paths = <<>>
    /\ unique_paths = <<>>
    /\ cln_raised = FALSE

CleanIdle ==
    /\ cln_pc = "idle"
    /\ input_is_dir = FALSE
    /\ mkdir_ok = FALSE
    /\ staged_files = {}
    /\ CleanCommon

LoadCommon ==
    /\ db = NoConnection
    /\ files_to_import = <<>>
    /\ file_path = NoFile
    /\ import_status = EmptyMap
    /\ table_name = <<>>
    /\ db_columns = <<>>
    /\ fault = NoFault
    /\ before = EmptyMap
    /\ faults_used = 0
    /\ runs = 1
    /\ loaded = [n \in FileNames |-> 0]
    /\ conn_error = FALSE

LoadIdle ==
    /\ pc = "idle"
    /\ schema_name = public
    /\ cleaned_is_dir = FALSE
    /\ cleaned_files = {}
    /\ LoadCommon

SanIdle ==
    /\ san_pc = "idle"
    /\ name = <<>>
    /\ is_column = FALSE
    /\ result = <<>>
    /\ header = <<>>

Init ==
    /\ SanIdle
    /\ final_columns = <<>>
    /\ pc = "start"
    /\ schema_name \in SchemaNames
    /\ cleaned_is_dir \in BOOLEAN
    /\ cleaned_files \in {S \in SUBSET FileUniverse :
                             Cardinality(S) <= MaxFiles /\ (~cleaned_is_dir => S = {})}
    /\ LoadCommon
    /\ CollectIdle
    /\ CleanIdle
    /\ ExtIdle

(* lines 84-88: the folder is not a directory *)
NotADirectory ==
    /\ pc = "start"
    /\ ~cleaned_is_dir
    /\ import_status' = Put(EmptyMap, error_summary, Summary("not_a_directory"))
    /\ pc' = "returned"
    /\ UNCHANGED <<schema_name, cleaned_is_dir, cleaned_files, db, files_to_import,
                   file_path, table_name, final_columns, db_columns, fault, before,
                   faults_used, runs, loaded, conn_error, san_vars>>
    /\ UNCHANGED col_vars
    /\ UNCHANGED cln_vars
    /\ UNCHANGED ext_vars

(* lines 90-96: psycopg2.connect, which can fail *)
Connect ==
    /\ pc = "start"
    /\ cleaned_is_dir
    /\ \E inj \in {"none", "lost"} :
         /\ MayRaise(inj)
         /\ fault' = <<"connect", inj>>
         /\ faults_used' = Charge(inj)
         /\ IF inj = "none"
            THEN /\ db' = Connected(db)
                 /\ pc' = "schema"
                 /\ UNCHANGED <<import_status, conn_error>>
            ELSE LET o == OuterExcept(db, import_status, database_error_summary,
                                      "could_not_connect")
                 IN /\ db' = o.db
                    /\ import_status' = o.import_status
                    /\ pc' = o.pc
                    /\ conn_error' = TRUE
    /\ UNCHANGED <<schema_name, cleaned_is_dir, cleaned_files, files_to_import,
                   file_path, table_name, final_columns, db_columns, before, runs,
                   loaded, san_vars>>
    /\ UNCHANGED col_vars
    /\ UNCHANGED cln_vars
    /\ UNCHANGED ext_vars

(* lines 99-103: CREATE SCHEMA IF NOT EXISTS, commit *)
EnsureSchema ==
    /\ pc = "schema"
    /\ \E inj \in {"none", "db", "lost"} :
         /\ MayRaise(inj)
         /\ fault' = <<"schema", inj>>
         /\ faults_used' = Charge(inj)
         /\ LET r == Execute(db, inj, "none", db.working)
                c == IF r.err = "none" THEN Commit(r.db) ELSE r
                o == OuterExcept(c.db, import_status, database_error_summary, c.err)
            IN IF c.err = "none"
               THEN /\ db' = c.db
                    /\ pc' = "list"
                    /\ UNCHANGED <<import_status, conn_error>>
               ELSE /\ db' = o.db
                    /\ import_status' = o.import_status
                    /\ pc' = o.pc
                    /\ conn_error' = (c.db.conn = "broken")
    /\ UNCHANGED <<schema_name, cleaned_is_dir, cleaned_files, files_to_import,
                   file_path, table_name, final_columns, db_columns, before, runs,
                   loaded, san_vars>>
    /\ UNCHANGED col_vars
    /\ UNCHANGED cln_vars
    /\ UNCHANGED ext_vars

(* lines 105-119: the files of the folder with a target extension, in the    *)
(* order iterdir gives them, which is any order                              *)
ListFiles ==
    /\ pc = "list"
    /\ LET eligible == {f \in cleaned_files : Lower(Suffix(f.fname)) \in target_extensions}
       IN IF eligible = {}
          THEN /\ import_status' = Put(EmptyMap, summary_no_target_files,
                                       Summary("no_target_files"))
               /\ db' = Close(db)
               /\ pc' = "returned"
               /\ UNCHANGED files_to_import
          ELSE /\ files_to_import' \in Orders(eligible)
               /\ pc' = "loop"
               /\ UNCHANGED <<import_status, db>>
    /\ UNCHANGED <<schema_name, cleaned_is_dir, cleaned_files, file_path, table_name,
                   final_columns, db_columns, fault, before, faults_used, runs, loaded,
                   conn_error, san_vars>>
    /\ UNCHANGED col_vars
    /\ UNCHANGED cln_vars
    /\ UNCHANGED ext_vars

(* lines 105, 288-295: listing the folder raises, an error that is not a     *)
(* database error                                                            *)
ListFilesFails ==
    /\ pc = "list"
    /\ faults_used < MaxFaults
    /\ fault' = <<"list", "io">>
    /\ faults_used' = faults_used + 1
    /\ LET o == OuterExcept(db, import_status, unexpected_error_summary, "os_error")
       IN /\ db' = o.db
          /\ import_status' = o.import_status
          /\ pc' = o.pc
    /\ UNCHANGED <<schema_name, cleaned_is_dir, cleaned_files, files_to_import,
                   file_path, table_name, final_columns, db_columns, before, runs,
                   loaded, conn_error, san_vars>>
    /\ UNCHANGED col_vars
    /\ UNCHANGED cln_vars
    /\ UNCHANGED ext_vars

(* lines 121-149 and 213-240: the next file of the loop: its table name, its *)
(* header and the final column list; a file that is neither CSV nor Excel    *)
(* gets no entry                                                             *)
ReadHeader ==
    /\ pc = "loop"
    /\ files_to_import # <<>>
    /\ \E inj \in {"none", "io"} :
         LET f == Head(files_to_import)
             t == sanitize_identifier(f.fname, FALSE)
             e == ExceptClause(db, import_status, f.fname,
                               Outcome(FileErrorKind(f), t, <<>>, <<>>, "file_unreadable"))
         IN /\ MayRaise(inj)
            /\ inj = "io" => IsCsv(f) \/ IsExcel(f)
            /\ fault' = <<"header", inj>>
            /\ faults_used' = Charge(inj)
            /\ file_path' = f
            /\ files_to_import' = Tail(files_to_import)
            /\ table_name' = t
            /\ before' = db.committed
            /\ IF ~(IsCsv(f) \/ IsExcel(f))
               THEN UNCHANGED <<pc, db, import_status, final_columns, conn_error>>
               ELSE IF inj = "io" \/ (IsCsv(f) /\ f.header = <<>>)
               THEN /\ db' = e.db
                    /\ import_status' = e.import_status
                    /\ pc' = e.pc
                    /\ UNCHANGED <<final_columns, conn_error>>
               ELSE IF IsExcel(f) /\ (f.nrows = 0 \/ f.header = <<>>)
               THEN /\ import_status' = Put(import_status, f.fname,
                                            Outcome("excel_empty", t, <<>>, <<>>, ""))
                    /\ UNCHANGED <<pc, db, final_columns, conn_error>>
               ELSE /\ final_columns' = FinalColumns(f.header)
                    /\ pc' = "create"
                    /\ UNCHANGED <<db, import_status, conn_error>>
    /\ UNCHANGED <<schema_name, cleaned_is_dir, cleaned_files, db_columns, runs, loaded,
                   san_vars>>
    /\ UNCHANGED col_vars
    /\ UNCHANGED cln_vars
    /\ UNCHANGED ext_vars

(* lines 151-162 and 242-249: CREATE TABLE IF NOT EXISTS, commit *)
CreateTableStep ==
    /\ pc = "create"
    /\ \E inj \in {"none", "db", "lost"} :
         LET r == Execute(db, inj, CreateTableError(db.working, table_name, final_columns),
                          CreateTable(db.working, table_name, final_columns))
             c == IF r.err = "none" THEN Commit(r.db) ELSE r
             e == ExceptClause(c.db, import_status, file_path.fname,
                               Outcome(DbErrorKind(file_path), table_name, <<>>, <<>>, c.err))
         IN /\ MayRaise(inj)
            /\ fault' = <<"create", inj>>
            /\ faults_used' = Charge(inj)
            /\ conn_error' = (conn_error \/ c.db.conn = "broken")
            /\ IF c.err = "none"
               THEN db' = c.db /\ pc' = "catalog" /\ UNCHANGED import_status
               ELSE db' = e.db /\ import_status' = e.import_status /\ pc' = e.pc
    /\ UNCHANGED <<schema_name, cleaned_is_dir, cleaned_files, files_to_import, file_path,
                   table_name, final_columns, db_columns, before, runs, loaded, san_vars>>
    /\ UNCHANGED col_vars
    /\ UNCHANGED cln_vars
    /\ UNCHANGED ext_vars

(* lines 164-180 and 251-265: the live column list of the table, and the     *)
(* comparison with the column list of the file                               *)
CompareColumns ==
    /\ pc = "catalog"
    /\ \E inj \in {"none", "db", "lost"} :
         LET r == get_table_columns(db, inj, table_name)
         IN /\ MayRaise(inj)
            /\ fault' = <<"catalog", inj>>
            /\ faults_used' = Charge(inj)
            /\ conn_error' = (conn_error \/ r.db.conn = "broken")
            /\ db' = r.db
            /\ db_columns' = r.columns
            /\ IF r.columns = <<>>
               THEN /\ import_status' = Put(import_status, file_path.fname,
                                            Outcome("no_columns", table_name, <<>>, <<>>, ""))
                    /\ pc' = "loop"
               ELSE IF ColumnsDiffer(final_columns, r.columns)
               THEN /\ import_status' = Put(import_status, file_path.fname,
                                            Outcome("mismatch", table_name, final_columns,
                                                    r.columns, ""))
                    /\ pc' = "loop"
               ELSE /\ pc' = "copy"
                    /\ UNCHANGED import_status
    /\ UNCHANGED <<schema_name, cleaned_is_dir, cleaned_files, files_to_import, file_path,
                   table_name, final_columns, before, runs, loaded, san_vars>>
    /\ UNCHANGED col_vars
    /\ UNCHANGED cln_vars
    /\ UNCHANGED ext_vars

(* lines 182-212 and 267-281: COPY ... FROM STDIN, commit *)
CopyRows ==
    /\ pc = "copy"
    /\ \E inj \in {"none", "db", "lost"} :
         LET r == Execute(db, inj, CopyError(db.working, table_name),
                          Copy(db.working, table_name, file_path.nrows))
             c == IF r.err = "none" THEN Commit(r.db) ELSE r
             e == ExceptClause(c.db, import_status, file_path.fname,
                               Outcome(DbErrorKind(file_path), table_name, <<>>, <<>>, c.err))
         IN /\ MayRaise(inj)
            /\ fault' = <<"copy", inj>>
            /\ faults_used' = Charge(inj)
            /\ conn_error' = (conn_error \/ c.db.conn = "broken")
            /\ IF c.err = "none"
               THEN /\ db' = c.db
                    /\ import_status' = Put(import_status, file_path.fname,
                                            Outcome(SuccessKind(file_path), table_name,
                                                    <<>>, <<>>, ""))
                    /\ pc' = "loop"
                    /\ loaded' = [loaded EXCEPT ![file_path.fname] = @ + 1]
               ELSE /\ db' = e.db
                    /\ import_status' = e.import_status
                    /\ pc' = e.pc
                    /\ UNCHANGED loaded
    /\ UNCHANGED <<schema_name, cleaned_is_dir, cleaned_files, files_to_import, file_path,
                   table_name, final_columns, db_columns, before, runs, san_vars>>
    /\ UNCHANGED col_vars
    /\ UNCHANGED cln_vars
    /\ UNCHANGED ext_vars

(* lines 293-298: the loop is over: finally, return import_status *)
Finish ==
    /\ pc = "loop"
    /\ files_to_import = <<>>
    /\ db' = Close(db)
    /\ pc' = "returned"
    /\ UNCHANGED <<schema_name, cleaned_is_dir, cleaned_files, files_to_import, file_path,
                   import_status, table_name, final_columns, db_columns, fault, before,
                   faults_used, runs, loaded, conn_error, san_vars>>
    /\ UNCHANGED col_vars
    /\ UNCHANGED cln_vars
    /\ UNCHANGED ext_vars

(* main.py: the script is run again on the same folder and the same store *)
RunAgain ==
    /\ pc \in {"returned", "raised"}
    /\ runs < MaxRuns
    /\ runs' = runs + 1
    /\ pc' = "start"
    /\ db' = [db EXCEPT !.conn = "none"]
    /\ files_to_import' = <<>>
    /\ file_path' = NoFile
    /\ import_status' = EmptyMap
    /\ table_name' = <<>>
    /\ final_columns' = <<>>
    /\ db_columns' = <<>>
    /\ fault' = NoFault
    /\ before' = EmptyMap
    /\ conn_error' = FALSE
    /\ UNCHANGED <<schema_name, cleaned_is_dir, cleaned_files, faults_used, loaded,
                   san_vars>>
    /\ UNCHANGED col_vars
    /\ UNCHANGED cln_vars
    /\ UNCHANGED ext_vars

Next ==
    \/ NotADirectory
    \/ Connect
    \/ EnsureSchema
    \/ ListFiles
    \/ ListFilesFails
    \/ ReadHeader
    \/ CreateTableStep
    \/ CompareColumns
    \/ CopyRows
    \/ Finish
    \/ RunAgain

Spec == Init /\ [][Next]_vars

-----------------------------------------------------------------------------
(* Specification of the sanitizer alone: every input of the bounded sets,   *)
(* then the call.                                                           *)

Alphabet == {"a", "B", "7", "_", " ", ".", "-", "!", "é"}
Strings(n) == UNION {[1..k -> Alphabet] : k \in 0..n}
(* lengths around the truncation point *)
PadLens == {0, MaxIdentLen - 1}
SanInputs == {p \o Pad("a", k) : p \in Strings(MaxLen), k \in PadLens}

HeaderCells == { <<"a">>, <<"A">>, <<"a","_","1">>, <<"!">>, <<"7">>,
                 Pad("a", MaxIdentLen) }
Headers == UNION {[1..k -> HeaderCells] : k \in 1..MaxCols}

SanInit ==
    /\ san_pc \in {"sanitize", "header"}
    /\ IF san_pc = "sanitize"
       THEN name \in SanInputs /\ is_column \in BOOLEAN /\ header = <<>>
       ELSE name = <<>> /\ is_column = TRUE /\ header \in Headers
    /\ result = <<>>
    /\ final_columns = <<>>
    /\ LoadIdle
    /\ CollectIdle
    /\ CleanIdle
    /\ ExtIdle

SanitizeCall ==
    /\ san_pc = "sanitize"
    /\ result' = sanitize_identifier(name, is_column)
    /\ san_pc' = "returned"
    /\ UNCHANGED <<name, is_column, header, load_vars>>
    /\ UNCHANGED col_vars
    /\ UNCHANGED cln_vars
    /\ UNCHANGED ext_vars

HeaderLoop ==
    /\ san_pc = "header"
    /\ final_columns' = FinalColumns(header)
    /\ san_pc' = "columns"
    /\ UNCHANGED <<name, is_column, result, header>>
    /\ UNCHANGED <<pc, schema_name, cleaned_is_dir, cleaned_files, db, files_to_import,
                   file_path, import_status, table_name, db_columns, fault, before,
                   faults_used, runs, loaded, conn_error>>
    /\ UNCHANGED col_vars
    /\ UNCHANGED cln_vars
    /\ UNCHANGED ext_vars

(* clean_data.py, clean_csv_file: the same loop over the cells sanitized by  *)
(* _sanitize_column_name; final_columns holds its final_header               *)
HeaderLoopClean ==
    /\ san_pc = "header"
    /\ final_columns' = final_header(header)
    /\ san_pc' = "header_cleaned"
    /\ UNCHANGED <<name, is_column, result, header>>
    /\ UNCHANGED <<pc, schema_name, cleaned_is_dir, cleaned_files, db, files_to_import,
                   file_path, import_status, table_name, db_columns, fault, before,
                   faults_used, runs, loaded, conn_error>>
    /\ UNCHANGED col_vars
    /\ UNCHANGED cln_vars
    /\ UNCHANGED ext_vars

SanNext == SanitizeCall \/ HeaderLoop \/ HeaderLoopClean

SpecSan == SanInit /\ [][SanNext]_vars

-----------------------------------------------------------------------------
(* extract_data.py: find_and_extract_data_files. A staged path is written   *)
(* as its file name: every path the function builds is extracted_data_dir / *)
(* name.                                                                    *)

processed_extensions == {DotXlsx, DotCsv, DotXls, DotTxt}
(* how a copy or an extraction ends: shutil.copy2 raises before it opens the *)
(* target when the source cannot be opened; the extraction opens the target  *)
(* for writing and raises while it reads a member that is not intact          *)
copy_err(original_path) == IF original_path.readable THEN "none" ELSE "not_written"
extraction_err(member_info) == IF member_info.intact THEN "none" ELSE "partial"

(* what a copy or an extraction leaves in the staging directory *)
Written(staged, path, content, inj) ==
    IF inj = "not_written" THEN staged
    ELSE Put(staged, path, IF inj = "none" THEN content ELSE "partial")
Recorded_always(paths, path, inj) == Append(paths, path)
Recorded(paths, path, inj) == IF inj = "none" THEN Append(paths, path) ELSE paths

CollectInit ==
    /\ SanIdle
    /\ final_columns = <<>>
    /\ LoadIdle
    /\ col_pc = "start"
    /\ folder_kind \in {"dir", "file", "missing"}
    /\ staging_ok \in {b \in BOOLEAN : b => folder_kind = "dir"}
    /\ loose_files \in {S \in SUBSET LooseUniverse :
                           Cardinality(S) <= MaxLoose /\ (folder_kind # "dir" => S = {})}
    /\ zip_files \in {S \in SUBSET ZipUniverse :
                         Cardinality(S) <= MaxZips /\ (folder_kind # "dir" => S = {})}
    /\ CollectCommon
    /\ CleanIdle
    /\ ExtIdle

(* lines 160-171: the folder does not exist or is a file *)
NotAFolder ==
    /\ col_pc = "start"
    /\ folder_kind # "dir"
    /\ collected' = <<>>
    /\ col_pc' = "returned"
    /\ UNCHANGED <<folder_kind, staging_ok, loose_files, zip_files, extracted_data,
                   loose_original_paths, top_level_items, zip_ref, members,
                   all_data_file_paths, target_filename_stem_ext, target_disk_path, collect_runs>>
    /\ UNCHANGED <<san_vars, load_vars>>
    /\ UNCHANGED cln_vars
    /\ UNCHANGED ext_vars

(* lines 174-191: mkdir of the staging directory, then the recursive scan *)
ScanLoose ==
    /\ col_pc = "start"
    /\ folder_kind = "dir"
    /\ all_data_file_paths' = <<>>
    /\ loose_original_paths' \in
           Orders(scan_directory_recursively_for_data_files(
                      loose_files \cup StagedAsLoose(extracted_data)
                          \cup CleanedAsLoose(cleaned_data), processed_extensions))
    /\ col_pc' = "loose"
    /\ UNCHANGED <<folder_kind, staging_ok, loose_files, zip_files, extracted_data,
                   top_level_items, zip_ref, members, target_filename_stem_ext,
                   target_disk_path, collected, collect_runs>>
    /\ UNCHANGED <<san_vars, load_vars>>
    /\ UNCHANGED cln_vars
    /\ UNCHANGED ext_vars

(* lines 198-223: one iteration of the loop over the loose files *)
CopyLoose ==
    /\ col_pc = "loose"
    /\ staging_ok
    /\ loose_original_paths # <<>>
    /\ target_filename_stem_ext' =
           sanitize_and_shorten_filename(
               IF Head(loose_original_paths).dir # <<>>
               THEN Head(loose_original_paths).dir[Len(Head(loose_original_paths).dir)]
                        \o <<"_">> \o Stem(Head(loose_original_paths).fname)
               ELSE Stem(Head(loose_original_paths).fname),
               Suffix(Head(loose_original_paths).fname))
    /\ target_disk_path' = generate_unique_filename(DOMAIN extracted_data,
                                                    target_filename_stem_ext', <<>>)
    /\ extracted_data' = Written(extracted_data, target_disk_path',
                                 Head(loose_original_paths).content,
                                 copy_err(Head(loose_original_paths)))
    /\ all_data_file_paths' = Recorded(all_data_file_paths, target_disk_path',
                                       copy_err(Head(loose_original_paths)))
    /\ loose_original_paths' = Tail(loose_original_paths)
    /\ UNCHANGED <<col_pc, folder_kind, staging_ok, loose_files, zip_files,
                   top_level_items, zip_ref, members, collected, collect_runs>>
    /\ UNCHANGED <<san_vars, load_vars>>
    /\ UNCHANGED cln_vars
    /\ UNCHANGED ext_vars

(* lines 232-233: the items of the top level; the loop acts on the ZIP       *)
(* archives among them only (line 244)                                       *)
ListTopLevel ==
    /\ col_pc = "loose"
    /\ loose_original_paths = <<>> \/ ~staging_ok
    /\ top_level_items' \in Orders({z \in zip_files : Lower(Suffix(z.fname)) = DotZip})
    /\ loose_original_paths' = <<>>
    /\ col_pc' = "zips"
    /\ UNCHANGED <<folder_kind, staging_ok, loose_files, zip_files, extracted_data,
                   zip_ref, members, all_data_file_paths, target_filename_stem_ext,
                   target_disk_path, collected, collect_runs>>
    /\ UNCHANGED <<san_vars, load_vars>>
    /\ UNCHANGED cln_vars
    /\ UNCHANGED ext_vars

(* lines 234-239: iterdir raises; the function returns what it has *)
ListTopLevelFails ==
    /\ col_pc = "loose"
    /\ loose_original_paths = <<>> \/ ~staging_ok
    /\ loose_original_paths' = <<>>
    /\ collected' = SortedList(Range(all_data_file_paths))
    /\ col_pc' = "returned"
    /\ UNCHANGED <<folder_kind, staging_ok, loose_files, zip_files, extracted_data,
                   top_level_items, zip_ref, members, all_data_file_paths,
                   target_filename_stem_ext, target_disk_path, collect_runs>>
    /\ UNCHANGED <<san_vars, load_vars>>
    /\ UNCHANGED cln_vars
    /\ UNCHANGED ext_vars

items_after_abort(items, opened) == IF opened THEN Tail(items) ELSE <<>>
(* lines 243, 250, 286-291: the try around ZipFile() is inside the loop over *)
(* the items and its except clauses only print, so the items left are the    *)
(* same whether the archive could be opened or not                           *)
items_after(items, opened) == Tail(items)

(* lines 243-255, 286-291: the next archive; skipped when the staging        *)
(* directory is not there or when ZipFile() raises                           *)
OpenZip ==
    /\ col_pc = "zips"
    /\ top_level_items # <<>>
    /\ top_level_items' = items_after(top_level_items, Head(top_level_items).readable)
    /\ IF staging_ok /\ Head(top_level_items).readable
       THEN /\ zip_ref' = Head(top_level_items)
            /\ members' = Head(top_level_items).infolist
            /\ col_pc' = "members"
       ELSE UNCHANGED <<zip_ref, members, col_pc>>
    /\ UNCHANGED <<folder_kind, staging_ok, loose_files, zip_files, extracted_data,
                   loose_original_paths, all_data_file_paths, target_filename_stem_ext,
                   target_disk_path, collected, collect_runs>>
    /\ UNCHANGED <<san_vars, load_vars>>
    /\ UNCHANGED cln_vars
    /\ UNCHANGED ext_vars

(* lines 256-284: one member of the archive *)
ExtractMember ==
    /\ col_pc = "members"
    /\ members # <<>>
    /\ members' = Tail(members)
    /\ IF ~Head(members).is_dir
          /\ Lower(Suffix(MemberName(Head(members).filename))) \in processed_extensions
       THEN /\ target_filename_stem_ext' =
                   sanitize_and_shorten_filename(
                       Stem(zip_ref.fname) \o <<"_">>
                           \o Stem(MemberName(Head(members).filename)),
                       Suffix(MemberName(Head(members).filename)))
            /\ target_disk_path' = generate_unique_filename(DOMAIN extracted_data,
                                                            target_filename_stem_ext', <<>>)
            /\ extracted_data' = Written(extracted_data, target_disk_path',
                                         Head(members).content,
                                         extraction_err(Head(members)))
            /\ all_data_file_paths' =
                   Recorded(all_data_file_paths, target_disk_path',
                            extraction_err(Head(members)))
       ELSE UNCHANGED <<target_filename_stem_ext, target_disk_path,
                        extracted_data, all_data_file_paths>>
    /\ UNCHANGED <<col_pc, folder_kind, staging_ok, loose_files, zip_files,
                   loose_original_paths, top_level_items, zip_ref, collected, collect_runs>>
    /\ UNCHANGED <<san_vars, load_vars>>
    /\ UNCHANGED cln_vars
    /\ UNCHANGED ext_vars

(* the end of the with block of the archive *)
CloseZip ==
    /\ col_pc = "members"
    /\ members = <<>>
    /\ zip_ref' = NoZip
    /\ col_pc' = "zips"
    /\ UNCHANGED <<folder_kind, staging_ok, loose_files, zip_files, extracted_data,
                   loose_original_paths, top_level_items, members, all_data_file_paths,
                   target_filename_stem_ext, target_disk_path, collected, collect_runs>>
    /\ UNCHANGED <<san_vars, load_vars>>
    /\ UNCHANGED cln_vars
    /\ UNCHANGED ext_vars

(* lines 297-303: sorted(list(set(all_data_file_paths))) *)
CollectReturn ==
    /\ col_pc = "zips"
    /\ top_level_items = <<>>
    /\ collected' = SortedList(Range(all_data_file_paths))
    /\ col_pc' = "returned"
    /\ UNCHANGED <<folder_kind, staging_ok, loose_files, zip_files, extracted_data,
                   loose_original_paths, top_level_items, zip_ref, members,
                   all_data_file_paths, target_filename_stem_ext, target_disk_path, collect_runs>>
    /\ UNCHANGED <<san_vars, load_vars>>
    /\ UNCHANGED cln_vars
    /\ UNCHANGED ext_vars

(* main.py is run again on the same folder *)
CollectAgain ==
    /\ col_pc = "returned"
    /\ folder_kind = "dir"
    /\ collect_runs < MaxCollectRuns
    /\ collect_runs' = collect_runs + 1
    /\ collected' = <<>>
    /\ target_filename_stem_ext' = <<>>
    /\ target_disk_path' = <<>>
    /\ col_pc' = "start"
    /\ UNCHANGED <<folder_kind, staging_ok, loose_files, zip_files, extracted_data,
                   loose_original_paths, top_level_items, zip_ref, members,
                   all_data_file_paths>>
    /\ UNCHANGED <<san_vars, load_vars>>
    /\ UNCHANGED cln_vars
    /\ UNCHANGED ext_vars

CollectNext ==
    \/ NotAFolder
    \/ ScanLoose
    \/ CopyLoose
    \/ ListTopLevel
    \/ ListTopLevelFails
    \/ OpenZip
    \/ ExtractMember
    \/ CloseZip
    \/ CollectReturn
    \/ CollectAgain

SpecCollect == CollectInit /\ [][CollectNext]_vars

-----------------------------------------------------------------------------
(* clean_data.py: process_files_for_cleaning. A path of cleaned_data is      *)
(* written as its file name.                                                 *)

processed_target_extensions == {DotCsv, DotXlsx, DotXls, DotTxt}

CleanInit ==
    /\ SanIdle
    /\ final_columns = <<>>
    /\ LoadIdle
    /\ CollectIdle
    /\ cln_pc = "start"
    /\ input_is_dir \in BOOLEAN
    /\ mkdir_ok \in BOOLEAN
    /\ staged_files \in
          IF ~input_is_dir THEN {{}}
          ELSE {S \in SUBSET StagedUniverse : Cardinality(S) <= MaxStaged}
                 \cup {{f} : f \in CsvFamily} \cup {{f} : f \in TextFamily}
    /\ CleanCommon
    /\ ExtIdle

(* lines 141-154: the input folder is not a directory, or mkdir raises *)
CleanNoFolder ==
    /\ cln_pc = "start"
    /\ ~input_is_dir \/ ~mkdir_ok
    /\ unique_paths' = <<>>
    /\ cln_pc' = "returned"
    /\ UNCHANGED <<input_is_dir, mkdir_ok, staged_files, cleaned_data, files_to_process,
                   original_file_path, processed_file_paths, cln_raised>>
    /\ UNCHANGED <<san_vars, load_vars, col_vars>>
    /\ UNCHANGED ext_vars

(* lines 156-157: the files of the input folder with a target extension, in  *)
(* the order iterdir gives them                                              *)
CleanList ==
    /\ cln_pc = "start"
    /\ input_is_dir /\ mkdir_ok
    /\ processed_file_paths' = <<>>
    /\ files_to_process' \in
           Orders({f \in staged_files :
                      Lower(Suffix(f.fname)) \in processed_target_extensions})
    /\ cln_pc' = "loop"
    /\ UNCHANGED <<input_is_dir, mkdir_ok, staged_files, cleaned_data,
                   original_file_path, unique_paths, cln_raised>>
    /\ UNCHANGED <<san_vars, load_vars, col_vars>>
    /\ UNCHANGED ext_vars

files_after_abort(files, raised) == IF raised THEN <<>> ELSE Tail(files)
(* lines 162, 213-214: the except clause is inside the loop and only prints, *)
(* so the files left after an iteration are the same whether it raised or not *)
files_after(files, raised) == Tail(files)

(* lines 162-214: one iteration of the loop *)
CleanFile ==
    /\ cln_pc = "loop"
    /\ files_to_process # <<>>
    /\ original_file_path' = Head(files_to_process)
    /\ \E fail_at \in FailRows(Head(files_to_process)) :
          /\ cln_raised' = ProcessFile(Head(files_to_process), fail_at).raised
          /\ files_to_process' =
                files_after(files_to_process,
                            ProcessFile(Head(files_to_process), fail_at).raised)
          /\ cleaned_data' =
                IF ProcessFile(Head(files_to_process), fail_at).left
                THEN Put(cleaned_data, Head(files_to_process).fname,
                         ProcessFile(Head(files_to_process), fail_at).content)
                ELSE cleaned_data
          /\ processed_file_paths' =
                IF ProcessFile(Head(files_to_process), fail_at).raised
                THEN processed_file_paths
                ELSE Append(processed_file_paths, Head(files_to_process).fname)
    /\ UNCHANGED <<cln_pc, input_is_dir, mkdir_ok, staged_files, unique_paths>>
    /\ UNCHANGED <<san_vars, load_vars, col_vars>>
    /\ UNCHANGED ext_vars

(* line 157: input_path.iterdir() is outside every try; when the folder    *)
(* cannot be listed (permission denied) the exception leaves the function    *)
CleanListFails ==
    /\ cln_pc = "start"
    /\ input_is_dir /\ mkdir_ok
    /\ cln_pc' = "raised"
    /\ UNCHANGED <<input_is_dir, mkdir_ok, staged_files, cleaned_data, files_to_process,
                   original_file_path, processed_file_paths, unique_paths, cln_raised>>
    /\ UNCHANGED <<san_vars, load_vars, col_vars>>
    /\ UNCHANGED ext_vars

(* lines 216-218: sorted(list(set(processed_file_paths))) *)
CleanReturn ==
    /\ cln_pc = "loop"
    /\ files_to_process = <<>>
    /\ unique_paths' = SortedList(Range(processed_file_paths))
    /\ cln_pc' = "returned"
    /\ UNCHANGED <<input_is_dir, mkdir_ok, staged_files, cleaned_data, files_to_process,
                   original_file_path, processed_file_paths, cln_raised>>
    /\ UNCHANGED <<san_vars, load_vars, col_vars>>
    /\ UNCHANGED ext_vars

CleanNext ==
    \/ CleanNoFolder
    \/ CleanList
    \/ CleanListFails
    \/ CleanFile
    \/ CleanReturn

SpecClean == CleanInit /\ [][CleanNext]_vars

-----------------------------------------------------------------------------
(* main.py: the three steps on one source folder. The content of a source   *)
(* file is its rows; the store has no table when the Loader starts.          *)

U_S == <<"U"," ","S">>
Cell_Order == <<"O","r","d","e","r">>
Row_data == << <<"7">>, <<"x">> >>
SourceNames == { <<"s",".","c","s","v">>, <<"A"," ","b",".","c","s","v">> }
SourceHeaders == { <<Cell_A, U_S>>, <<Cell_Order, Cell_a>> }
SourceRows == {Row_data, Row_brk, Row_blank}
SourceCsv ==
    {LooseFile(<<>>, n, <<h>> \o body, TRUE) :
        n \in SourceNames, h \in SourceHeaders,
        body \in UNION {[1..k -> SourceRows] : k \in 0..MaxRows}}

PipelineInit ==
    /\ SanIdle
    /\ final_columns = <<>>
    /\ LoadIdle
    /\ CleanIdle
    /\ col_pc = "start"
    /\ folder_kind = "dir"
    /\ staging_ok = TRUE
    /\ loose_files \in {{f} : f \in SourceCsv}
    /\ zip_files = {}
    /\ CollectCommon
    /\ ExtIdle

(* main.py, lines 52-56: the Normalizer is called on extracted_data when it  *)
(* exists                                                                    *)
MainClean ==
    /\ col_pc = "returned"
    /\ staging_ok
    /\ cln_pc = "idle"
    /\ cln_pc' = "start"
    /\ input_is_dir' = TRUE
    /\ mkdir_ok' \in BOOLEAN
    /\ staged_files' = {StagedFile(n, extracted_data[n], <<>>, "ok", 0) :
                           n \in DOMAIN extracted_data}
    /\ UNCHANGED <<cleaned_data, files_to_process, original_file_path,
                   processed_file_paths, unique_paths, cln_raised>>
    /\ UNCHANGED <<san_vars, load_vars, col_vars>>
    /\ UNCHANGED ext_vars

(* a CSV file of cleaned_data as the Loader reads it: the cells of its first *)
(* line and the number of lines after it                                     *)
AsCleanedFile(n, cleaned) ==
    File(n, IF cleaned.rows = <<>> THEN <<>> ELSE cleaned.rows[1],
         IF cleaned.rows = <<>> THEN 0 ELSE Len(cleaned.rows) - 1)

(* main.py, lines 86-106: the Loader is called on cleaned_data when it       *)
(* exists, with the schema CRDCdata                                          *)
MainLoad ==
    /\ cln_pc = "returned"
    /\ mkdir_ok
    /\ pc = "idle"
    /\ pc' = "start"
    /\ schema_name' = CRDCdata
    /\ cleaned_is_dir' = TRUE
    /\ cleaned_files' = {AsCleanedFile(n, cleaned_data[n]) : n \in DOMAIN cleaned_data}
    /\ loaded' = [n \in DOMAIN cleaned_data |-> 0]
    /\ UNCHANGED <<db, files_to_import, file_path, import_status, table_name,
                   final_columns, db_columns, fault, before, faults_used, runs, conn_error>>
    /\ UNCHANGED <<san_vars, col_vars, cln_vars>>
    /\ UNCHANGED ext_vars

PipelineNext ==
    \/ ScanLoose
    \/ CopyLoose
    \/ ListTopLevel
    \/ ListTopLevelFails
    \/ CollectReturn
    \/ CollectAgain
    \/ MainClean
    \/ CleanNoFolder
    \/ CleanList
    \/ CleanListFails
    \/ CleanFile
    \/ CleanReturn
    \/ MainLoad
    \/ Connect
    \/ EnsureSchema
    \/ ListFiles
    \/ ListFilesFails
    \/ ReadHeader
    \/ CreateTableStep
    \/ CompareColumns
    \/ CopyRows
    \/ Finish

SpecPipeline == PipelineInit /\ [][PipelineNext]_vars

-----------------------------------------------------------------------------
(* sqlImport.py, main: step 4, after the schema, the folders and raw_files   *)
(* have been made. Every call of the store may raise while the budget of     *)
(* faults lasts.                                                             *)
CrdcInit ==
    /\ SanIdle
    /\ final_columns = <<>>
    /\ LoadIdle
    /\ CollectIdle
    /\ CleanIdle
    /\ ConsensusIdle
    /\ crdc_pc = "main"
    /\ IMPORT_MODE \in ImportModes
    /\ crdc_store \in {[t \in S \cup {RawFiles} |->
                           IF t = RawFiles THEN RawTable(0) ELSE OldTable] :
                       S \in SUBSET CrdcTables}
    /\ crdc_work \in UNION {Orders(S) : S \in {T \in SUBSET CrdcUniverse :
                                                 Cardinality(T) <= MaxCrdcFiles}}
    /\ crdc_file = NoCrdcFile
    /\ crdc_tbl = <<>>
    /\ crdc_call = 0
    /\ crdc_before = EmptyMap
    /\ crdc_answers = <<>>
    /\ crdc_faults = 0
    /\ crdc_faults_used = 0

CrdcUnchanged == UNCHANGED <<san_vars, load_vars, col_vars, cln_vars, cns_vars>>

(* lines 290-310: the next file of the walk; clean_csv is outside every try  *)
CrdcNextFile ==
    /\ crdc_pc = "main"
    /\ crdc_work # <<>>
    /\ crdc_file' = Head(crdc_work)
    /\ crdc_work' = Tail(crdc_work)
    /\ crdc_tbl' = sanitize_table_name(Stem(Head(crdc_work).fname))
    /\ crdc_before' = crdc_store
    /\ crdc_answers' = <<>>
    /\ crdc_faults' = 0
    /\ crdc_call' = IF Lower(Suffix(Head(crdc_work).fname)) \in {DotXlsx, DotXls}
                    THEN 1 ELSE 0
    /\ crdc_pc' = IF Lower(Suffix(Head(crdc_work).fname)) = DotCsv
                  THEN (IF Head(crdc_work).readable THEN "overwrite" ELSE "raised")
                  ELSE IF Lower(Suffix(Head(crdc_work).fname)) \in {DotXlsx, DotXls}
                  THEN "overwrite"
                  ELSE "raw"
    /\ UNCHANGED <<IMPORT_MODE, crdc_store, crdc_faults_used>>
    /\ CrdcUnchanged

(* handle_overwrite, lines 92-135; import_excel_to_postgres calls it and     *)
(* then import_csv_to_postgres calls it again                                *)
HandleOverwrite ==
    /\ crdc_pc = "overwrite"
    /\ \E exists_fails, drop_fails \in BOOLEAN, ans \in Answers \cup {NoAnswer} :
          /\ (ans = NoAnswer) <=>
                ~Prompts(IMPORT_MODE, table_exists(crdc_store, crdc_tbl, exists_fails))
          /\ drop_fails =>
                Drops(IMPORT_MODE, table_exists(crdc_store, crdc_tbl, exists_fails), ans)
          /\ crdc_faults_used + Count(exists_fails) + Count(drop_fails) <= MaxCrdcFaults
          /\ crdc_faults_used' = crdc_faults_used + Count(exists_fails) + Count(drop_fails)
          /\ crdc_faults' = crdc_faults + Count(exists_fails) + Count(drop_fails)
          /\ crdc_answers' = IF ans = NoAnswer THEN crdc_answers
                             ELSE Append(crdc_answers, ans)
          /\ crdc_store' = StoreAfterOverwrite(crdc_store, crdc_tbl, IMPORT_MODE,
                               table_exists(crdc_store, crdc_tbl, exists_fails),
                               ans, drop_fails)
          /\ crdc_pc' =
                IF ~handle_overwrite(IMPORT_MODE,
                        table_exists(crdc_store, crdc_tbl, exists_fails), ans, drop_fails)
                THEN "main"
                ELSE IF crdc_call = 1 THEN "overwrite" ELSE "import"
    /\ crdc_call' = 0
    /\ UNCHANGED <<IMPORT_MODE, crdc_work, crdc_file, crdc_tbl, crdc_before>>
    /\ CrdcUnchanged

(* import_csv_to_postgres after handle_overwrite, lines 192-214 *)
ImportCsv ==
    /\ crdc_pc = "import"
    /\ \E create_fails, copy_fails \in BOOLEAN :
          /\ ~(create_fails /\ copy_fails)
          /\ copy_fails => ~CreateFails(crdc_store, crdc_tbl, crdc_file.header)
          /\ crdc_faults_used + Count(create_fails) + Count(copy_fails) <= MaxCrdcFaults
          /\ crdc_faults_used' = crdc_faults_used + Count(create_fails) + Count(copy_fails)
          /\ crdc_faults' = crdc_faults + Count(create_fails) + Count(copy_fails)
          /\ crdc_store' = StoreAfterImport(crdc_store, crdc_tbl, crdc_file,
                                            create_fails, copy_fails)
    /\ crdc_pc' = "main"
    /\ UNCHANGED <<IMPORT_MODE, crdc_work, crdc_file, crdc_tbl, crdc_call, crdc_before,
                   crdc_answers>>
    /\ CrdcUnchanged

(* import_file_as_raw, lines 254-273: one more row of raw_files *)
ImportRaw ==
    /\ crdc_pc = "raw"
    /\ \E insert_fails \in BOOLEAN :
          /\ crdc_faults_used + Count(insert_fails) <= MaxCrdcFaults
          /\ crdc_faults_used' = crdc_faults_used + Count(insert_fails)
          /\ crdc_faults' = crdc_faults + Count(insert_fails)
          /\ crdc_store' =
                IF insert_fails \/ RawFiles \notin DOMAIN crdc_store THEN crdc_store
                ELSE Put(crdc_store, RawFiles,
                         CrdcTable(crdc_store[RawFiles].source, crdc_store[RawFiles].cols,
                                   crdc_store[RawFiles].rows + 1))
    /\ crdc_pc' = "main"
    /\ UNCHANGED <<IMPORT_MODE, crdc_work, crdc_file, crdc_tbl, crdc_call, crdc_before,
                   crdc_answers>>
    /\ CrdcUnchanged

(* the walk is over *)
CrdcFinish ==
    /\ crdc_pc = "main"
    /\ crdc_work = <<>>
    /\ crdc_pc' = "done"
    /\ UNCHANGED <<IMPORT_MODE, crdc_store, crdc_work, crdc_file, crdc_tbl, crdc_call,
                   crdc_before, crdc_answers, crdc_faults, crdc_faults_used>>
    /\ CrdcUnchanged

CrdcNext ==
    \/ CrdcNextFile
    \/ HandleOverwrite
    \/ ImportCsv
    \/ ImportRaw
    \/ CrdcFinish

SpecCrdc == CrdcInit /\ [][CrdcNext]_vars

-----------------------------------------------------------------------------
(* C1: for every input and both kinds, sanitize_identifier returns a string *)
(* matching ^[a-z][a-z0-9_]{0,62}$.                                        *)

MatchesIdentifierRegex(s) ==
    /\ 1 <= Len(s) /\ Len(s) <= 63
    /\ s[1] \in AsciiLower
    /\ \A i \in 1..Len(s) : s[i] \in AsciiLower \cup AsciiDigits \cup {"_"}

C1_SanitizeMatchesRegex ==
    san_pc = "returned" => MatchesIdentifierRegex(result)

-----------------------------------------------------------------------------
(* C2: every identifier the Loader puts into a statement (the schema name,  *)
(* the table name, every column of the final column list) is lowercase,     *)
(* holds only [a-z0-9_], does not start with a digit and has at most 63      *)
(* characters. At create the CREATE TABLE statement is built from            *)
(* table_name and final_columns and executed; from schema on, schema_name    *)
(* is in every statement.                                                    *)

ValidIdentifier(s) ==
    /\ Len(s) <= 63
    /\ \A i \in 1..Len(s) : s[i] \in AsciiLower \cup AsciiDigits \cup {"_"}
    /\ s # <<>> => s[1] \notin AsciiDigits

C2_LoaderIdentifiersValid ==
    /\ pc \in {"schema", "list", "loop", "create", "catalog", "copy"}
          => ValidIdentifier(schema_name)
    /\ pc \in {"create", "catalog", "copy"}
          => /\ ValidIdentifier(table_name)
             /\ \A i \in 1..Len(final_columns) : ValidIdentifier(final_columns[i])

-----------------------------------------------------------------------------
(* C3: in the staging directory the Collector never overwrites: a step      *)
(* leaves every file that is there under its name with its content; a file   *)
(* it adds, loose or from a ZIP archive, is written under its sanitized name *)
(* when that name is free and, when it is taken, under the name with the      *)
(* smallest counter _1, _2, ... before the extension that is free; and a path *)
(* it records is the name of a file that was not there before.                *)
WithCounter(base, k) ==
    Stem(base) \o <<"_">> \o ToDecimal(k) \o Suffix(base)
StagedKept ==
    \A n \in DOMAIN extracted_data :
        n \in DOMAIN extracted_data' /\ extracted_data'[n] = extracted_data[n]
SmallestFreeName(n, base) ==
    \/ n = base
    \/ /\ base \in DOMAIN extracted_data
       /\ \E k \in 1..(Cardinality(DOMAIN extracted_data) + 1) :
             /\ n = WithCounter(base, k)
             /\ \A j \in 1..(k - 1) : WithCounter(base, j) \in DOMAIN extracted_data
C3_NoOverwriteSmallestSuffix ==
    [][ /\ StagedKept
        /\ \A n \in DOMAIN extracted_data' \ DOMAIN extracted_data :
              n = target_disk_path' /\ SmallestFreeName(n, target_filename_stem_ext')
        /\ Len(all_data_file_paths') > Len(all_data_file_paths) =>
              /\ all_data_file_paths' = Append(all_data_file_paths, target_disk_path')
              /\ target_disk_path' \notin DOMAIN extracted_data
              /\ target_disk_path' \in DOMAIN extracted_data' ]_vars
(* C3 witness: z/x.csv was staged as z_x.csv, the member x.csv of z.zip as    *)
(* z_x_1.csv, and the member k/x.CSV has just been written as z_x_2.csv.       *)
C3_Witness ==
    /\ col_pc = "members"
    /\ target_filename_stem_ext \in DOMAIN extracted_data
    /\ extracted_data[target_filename_stem_ext] = "L_z_x"
    /\ WithCounter(target_filename_stem_ext, 1) \in DOMAIN extracted_data
    /\ extracted_data[WithCounter(target_filename_stem_ext, 1)] = "Z_z_x"
    /\ target_disk_path = WithCounter(target_filename_stem_ext, 2)
    /\ target_disk_path \in DOMAIN extracted_data
    /\ extracted_data[target_disk_path] = "Z_z_k_x"

-----------------------------------------------------------------------------
(* C4: when the column list of the file differs, as a sequence, from the    *)
(* live column list the Loader got for its table, the step appends no row,  *)
(* leaves the tables as they are (also as they were when the file began, if  *)
(* the table was there), records the rejection with both lists for the file  *)
(* and goes on with the next file.                                           *)

-----------------------------------------------------------------------------
(* C5: once a table exists, its column list never changes and its row count *)
(* never decreases, whatever the Loader does next.                           *)

-----------------------------------------------------------------------------
(* C6: the Loader appends: the rows of a table are the data rows of every    *)
(* committed import into it, so a file imported twice has added twice its    *)
(* rows.                                                                     *)

RECURSIVE RowsFrom(_)
RowsFrom(S) ==
    IF S = {} THEN 0
    ELSE LET f == CHOOSE g \in S : TRUE
         IN loaded[f.fname] * f.nrows + RowsFrom(S \ {f})

ImportedRows(t) ==
    RowsFrom({f \in FileUniverse : sanitize_identifier(f.fname, FALSE) = t})

-----------------------------------------------------------------------------
(* C7: a failure on one file affects only that file: a file on which no     *)
(* fault is raised gets the outcome that the file and the tables of the      *)
(* store decide, whatever happened to the files before it.                   *)

(* the outcome of a file imported with no fault over a connection that has   *)
(* no transaction, into the given tables                                     *)
FaultFreeOutcome(f, tables) ==
    LET t == sanitize_identifier(f.fname, FALSE)
        fc == FinalColumns(f.header)
    IN IF ~(IsCsv(f) \/ IsExcel(f)) THEN "none"
       ELSE IF IsCsv(f) /\ f.header = <<>> THEN "non_db_error"
       ELSE IF IsExcel(f) /\ (f.nrows = 0 \/ f.header = <<>>) THEN "excel_empty"
       ELSE IF CreateTableError(tables, t, fc) # "none" THEN DbErrorKind(f)
       ELSE IF CreateTable(tables, t, fc)[t].cols # fc THEN "mismatch"
       ELSE SuccessKind(f)

C7_FailureIsLocal ==
    (/\ pc \in {"loop", "returned", "raised"}
     /\ file_path # NoFile
     /\ fault[1] \in {"header", "create", "catalog", "copy"}
     /\ fault[2] = "none")
    => LET expected == FaultFreeOutcome(file_path, before)
       IN IF expected = "none" THEN file_path.fname \notin DOMAIN import_status
          ELSE /\ file_path.fname \in DOMAIN import_status
               /\ import_status[file_path.fname].kind = expected

-----------------------------------------------------------------------------
(* C8: every path by which the Loader finishes a file ends with a commit or *)
(* a rollback: when the loop is back at its head after a file, the           *)
(* connection has no open and no aborted transaction.                        *)

C8_NoTransactionBetweenFiles ==
    (pc = "loop" /\ file_path # NoFile) => db.txn = "idle"

-----------------------------------------------------------------------------
(* C9: when the COPY of a file fails with a database error of the statement, *)
(* the transaction is rolled back, the table has the rows it had before the  *)
(* file, the error text is the outcome of the file, and the loop goes on.    *)

RowsOf(tables, t) == IF t \in DOMAIN tables THEN tables[t].rows ELSE 0

C9_CopyErrorRollsBack ==
    [][ (pc = "copy" /\ fault' = <<"copy", "db">>)
        => /\ db'.txn = "idle"
           /\ db'.working = db'.committed
           /\ RowsOf(db'.committed, table_name) = RowsOf(before, table_name)
           /\ loaded' = loaded
           /\ file_path.fname \in DOMAIN import_status'
           /\ import_status'[file_path.fname] =
                 Outcome(DbErrorKind(file_path), table_name, <<>>, <<>>, "statement_failed")
           /\ pc' = "loop"
           /\ files_to_import' = files_to_import ]_vars

C9_Witness ==
    /\ pc = "loop"
    /\ fault = <<"copy", "db">>
    /\ file_path.fname \in DOMAIN import_status
    /\ import_status[file_path.fname].text = "statement_failed"
    /\ file_path.nrows > 0

-----------------------------------------------------------------------------
(* C10: after a connection-level error the invocation does not raise: it    *)
(* returns the mapping with exactly one summary entry, and the connection,   *)
(* if it was opened, is closed with no transaction open.                     *)

C10_ConnectionErrorIsSummarised ==
    (pc \in {"returned", "raised"} /\ conn_error)
    => /\ pc = "returned"
       /\ Cardinality(DOMAIN import_status
                        \cap {database_error_summary, unexpected_error_summary}) = 1
       /\ db.conn \in {"none", "closed"}
       /\ db.txn = "idle"

-----------------------------------------------------------------------------
(* C11: when the Loader returns from a cleaned directory that has an        *)
(* eligible file without having written a summary entry, the keys of the     *)
(* mapping are exactly the names of the files whose extension is in          *)
(* target_extensions.                                                        *)
ReservedKeys == {error_summary, summary_no_target_files, database_error_summary,
                 unexpected_error_summary}
EligibleNames ==
    {f.fname : f \in {g \in cleaned_files : Lower(Suffix(g.fname)) \in target_extensions}}
C11_OneEntryPerEligibleFile ==
    (pc = "returned" /\ cleaned_is_dir /\ EligibleNames # {}
        /\ DOMAIN import_status \cap ReservedKeys = {})
    => DOMAIN import_status = EligibleNames

-----------------------------------------------------------------------------
(* C12: in the mapping the Loader returns, the entries whose key is not a    *)
(* reserved key are the per-file records, and the totals of main.py count     *)
(* each of them once: the successes are the per-file records that succeeded,  *)
(* the failures are all the other per-file records, and no summary entry is   *)
(* counted.                                                                  *)
PerFileRecords == DOMAIN import_status \ ReservedKeys
C12_TotalsCountPerFileRecords ==
    pc = "returned" =>
       /\ successful_imports(import_status) =
              Cardinality({k \in PerFileRecords : SuccessfullyImported(import_status[k])})
       /\ failed_imports(import_status) =
              Cardinality({k \in PerFileRecords : ~SuccessfullyImported(import_status[k])})

-----------------------------------------------------------------------------
(* C13: in every CSV file the Normalizer has written, no cell of any row     *)
(* holds a carriage return or a line feed, and every cell of a data row is    *)
(* trimmed and is a cell of the input, trimmed, with each \r\n, \n or \r      *)
(* replaced by one space.                                                     *)
RECURSIVE BreaksToSpace(_)
BreaksToSpace(s) ==
    IF s = <<>> THEN <<>>
    ELSE IF Len(s) >= 2 /\ s[1] = "\r" /\ s[2] = "\n"
    THEN <<" ">> \o BreaksToSpace(SubSeq(s, 3, Len(s)))
    ELSE IF s[1] \in {"\r", "\n"} THEN <<" ">> \o BreaksToSpace(Tail(s))
    ELSE <<s[1]>> \o BreaksToSpace(Tail(s))
Trimmed(s) == s = <<>> \/ (s[1] \notin StrWhitespace /\ s[Len(s)] \notin StrWhitespace)
StagedNamed(n) == CHOOSE f \in staged_files : f.fname = n
CleanedCsvNames == {n \in DOMAIN cleaned_data : cleaned_data[n].kind = "csv"}
IsCleanedFrom(out_row, in_row) ==
    /\ Len(out_row) = Len(in_row)
    /\ \A i \in 1..Len(out_row) :
          out_row[i] = BreaksToSpace(StripClass(in_row[i], StrWhitespace))
C13_NoLineBreakInCells ==
    \A n \in CleanedCsvNames :
       \A k \in 1..Len(cleaned_data[n].rows) :
          LET out_row == cleaned_data[n].rows[k]
          IN /\ \A i \in 1..Len(out_row) : "\r" \notin Range(out_row[i])
                                            /\ "\n" \notin Range(out_row[i])
             /\ (k > 1 \/ HeaderIndex(StagedNamed(n).rows) = 0) =>
                   /\ \A i \in 1..Len(out_row) : Trimmed(out_row[i])
                   /\ \E j \in 1..Len(StagedNamed(n).rows) :
                         IsCleanedFrom(out_row, StagedNamed(n).rows[j])
(* C13 witness: a CSV file was written whose input has the cell              *)
(* " x\r\ny\nz " in a data row, and the output has "x y z" in its place.      *)
C13_Witness ==
    \E n \in CleanedCsvNames :
       /\ \E j \in 2..Len(StagedNamed(n).rows) : StagedNamed(n).rows[j] = Row_brk
       /\ \E k \in 2..Len(cleaned_data[n].rows) :
             cleaned_data[n].rows[k] = << <<"x"," ","y"," ","z">>, <<>> >>

-----------------------------------------------------------------------------
(* C14: for a CSV file with a header (a row with a non-blank cell among its  *)
(* first HeaderWindow rows), the file in cleaned_data is one header row       *)
(* followed by exactly the rows after the header that have a non-blank cell,  *)
(* in their order and with their number of cells.                             *)
KeptDataRows(rows) ==
    SelectSeq(SubSeq(rows, HeaderIndex(rows) + 1, Len(rows)), HasContent)
C14_DataRowsKept ==
    \A n \in CleanedCsvNames :
       HeaderIndex(StagedNamed(n).rows) # 0 =>
          /\ Len(cleaned_data[n].rows) = Len(KeptDataRows(StagedNamed(n).rows)) + 1
          /\ \A k \in 1..Len(KeptDataRows(StagedNamed(n).rows)) :
                IsCleanedFrom(cleaned_data[n].rows[k + 1],
                              KeptDataRows(StagedNamed(n).rows)[k])

-----------------------------------------------------------------------------
(* C15 as stated: the header of a CSV file is the first of its first          *)
(* HeaderWindow rows that has a non-blank cell; when none of them has one, no *)
(* header is written and every row after them is in the output as it is in    *)
(* the input. Stated for the files that are read to their end.                *)
FirstNonBlankInWindow(rows) ==
    IF \E i \in 1..Len(rows) : i <= HeaderWindow /\ HasContent(rows[i])
    THEN CHOOSE i \in 1..Len(rows) :
            /\ i <= HeaderWindow /\ HasContent(rows[i])
            /\ \A j \in 1..(i - 1) : ~HasContent(rows[j])
    ELSE 0
RowsAfterWindow(rows) ==
    IF Len(rows) > HeaderWindow THEN SubSeq(rows, HeaderWindow + 1, Len(rows)) ELSE <<>>
C15_HeaderChoice ==
    \A n \in CleanedCsvNames :
       StagedNamed(n).bad_row = 0 =>
          IF FirstNonBlankInWindow(StagedNamed(n).rows) # 0
          THEN /\ cleaned_data[n].rows # <<>>
               /\ cleaned_data[n].rows[1] =
                     final_header(StagedNamed(n).rows[FirstNonBlankInWindow(StagedNamed(n).rows)])
          ELSE cleaned_data[n].rows = RowsAfterWindow(StagedNamed(n).rows)

(* C15 as amended: any output of a CSV file with a non-blank row among its    *)
(* first HeaderWindow rows begins with the sanitized, de-duplicated cells of  *)
(* the first such row; when there is no such row, no header is written and    *)
(* the rows after the window are written as data rows are: those without a    *)
(* non-blank cell dropped, the others in order with every cell trimmed and    *)
(* its line breaks replaced by a space. A file whose read fails keeps the     *)
(* rows written before the failure.                                           *)
KeptAfterWindow(rows) == SelectSeq(RowsAfterWindow(rows), HasContent)
C15_HeaderOrCleanedRows ==
    \A n \in CleanedCsvNames :
       IF FirstNonBlankInWindow(StagedNamed(n).rows) # 0
       THEN IF cleaned_data[n].rows = <<>>
            THEN StagedNamed(n).bad_row # 0
            ELSE cleaned_data[n].rows[1] =
                    final_header(StagedNamed(n).rows[FirstNonBlankInWindow(StagedNamed(n).rows)])
       ELSE /\ Len(cleaned_data[n].rows) <= Len(KeptAfterWindow(StagedNamed(n).rows))
            /\ StagedNamed(n).bad_row = 0 =>
                  Len(cleaned_data[n].rows) = Len(KeptAfterWindow(StagedNamed(n).rows))
            /\ \A k \in 1..Len(cleaned_data[n].rows) :
                  IsCleanedFrom(cleaned_data[n].rows[k],
                                KeptAfterWindow(StagedNamed(n).rows)[k])
C15_Witness ==
    \E n \in CleanedCsvNames :
       /\ FirstNonBlankInWindow(StagedNamed(n).rows) = 0
       /\ StagedNamed(n).bad_row = 0
       /\ Len(StagedNamed(n).rows) = HeaderWindow + 2
       /\ ~HasContent(StagedNamed(n).rows[HeaderWindow + 1])
       /\ cleaned_data[n].rows = << << <<"x"," ","y"," ","z">>, <<>> >> >>

-----------------------------------------------------------------------------
(* The sanitized cells of the header row the de-duplication loop has run on, *)
(* and the names assigned before cell i.                                      *)
SanitizedCells ==
    [i \in 1..Len(header) |->
        IF san_pc = "header_cleaned" THEN sanitize_column_name(header[i])
        ELSE sanitize_identifier(header[i], TRUE)]
AssignedBefore(i) == {final_columns[j] : j \in 1..(i - 1)}
DedupDone == san_pc \in {"columns", "header_cleaned"}
SameLengthAndDistinct ==
    /\ Len(final_columns) = Len(header)
    /\ \A i, j \in 1..Len(final_columns) : i # j => final_columns[i] # final_columns[j]
SmallestSuffix(i) ==
    \E k \in 1..Len(header) :
       /\ final_columns[i] = Suffixed(SanitizedCells[i], k)
       /\ final_columns[i] \notin AssignedBefore(i)
       /\ \A j \in 1..(k - 1) : Suffixed(SanitizedCells[i], j) \in AssignedBefore(i)

(* C16 as stated: the final column list of a header row has the length of    *)
(* the header and pairwise distinct names; the first occurrence of a         *)
(* sanitized name in the row keeps the name, and a name that collides with   *)
(* one already assigned gets the suffix _k with the smallest k >= 1 that      *)
(* makes it differ from every name already assigned.                          *)
C16_FirstOccurrenceKeeps ==
    DedupDone =>
       /\ SameLengthAndDistinct
       /\ \A i \in 1..Len(header) :
             /\ (\A j \in 1..(i - 1) : SanitizedCells[j] # SanitizedCells[i]) =>
                   final_columns[i] = SanitizedCells[i]
             /\ SanitizedCells[i] \in AssignedBefore(i) => SmallestSuffix(i)

(* C16 as amended: same length, pairwise distinct; a sanitized name that      *)
(* differs from every name already assigned in the row keeps the name, and    *)
(* one that collides with a name already assigned gets the suffix _k with     *)
(* the smallest k >= 1 that makes it differ from every name already assigned. *)
C16_UnassignedKeeps ==
    DedupDone =>
       /\ SameLengthAndDistinct
       /\ \A i \in 1..Len(header) :
             IF SanitizedCells[i] \in AssignedBefore(i)
             THEN SmallestSuffix(i)
             ELSE final_columns[i] = SanitizedCells[i]
C16_Witness ==
    /\ san_pc = "header_cleaned"
    /\ header = << <<"a">>, <<"A">>, <<"a","_","1">> >>
    /\ final_columns = << <<"a">>, <<"a","_","1">>, <<"a","_","1","_","1">> >>

-----------------------------------------------------------------------------
(* C17: after a run, every staged text file other than a CSV file that can   *)
(* be opened has a file of its name in cleaned_data and is in the returned   *)
(* list; the file holds the text of the first of the decodings utf-8,        *)
(* cp1252, latin-1, iso-8859-15 that succeeds, or is a verbatim copy when    *)
(* the reading stops without one.                                            *)
DecodingOrder == <<"utf-8", "cp1252", "latin-1", "iso-8859-15">>
FirstDecoding(bytes) ==
    CHOOSE i \in 1..Len(DecodingOrder) :
       /\ Decodable(DecodingOrder[i], bytes)
       /\ \A j \in 1..(i - 1) : ~Decodable(DecodingOrder[j], bytes)
StagedTextFiles ==
    {f \in staged_files : Lower(Suffix(f.fname)) = DotTxt /\ f.io # "unreadable"}
RunCompleted == cln_pc = "returned" /\ input_is_dir /\ mkdir_ok
-----------------------------------------------------------------------------
(* C18: an error on one staged file does not stop the run: when the call     *)
(* returns, every staged file with a target extension that is processed      *)
(* without error is in cleaned_data with its error-free content and is in    *)
(* the returned list, whatever other files failed and in whatever order the  *)
(* files were processed; and an iteration that raised is followed by the     *)
(* rest of the loop.                                                          *)
TargetFiles ==
    {f \in staged_files : Lower(Suffix(f.fname)) \in processed_target_extensions}
FailsToProcess(f) ==
    f.io = "unreadable" \/ (Lower(Suffix(f.fname)) = DotCsv /\ f.bad_row # 0)
C18_ErrorsAreLocal ==
    /\ RunCompleted =>
          \A f \in TargetFiles :
             ~FailsToProcess(f) =>
                /\ f.fname \in DOMAIN cleaned_data
                /\ cleaned_data[f.fname] = ProcessFile(f, 0).content
                /\ f.fname \in Range(unique_paths)
    /\ (input_is_dir /\ mkdir_ok /\ cln_pc \in {"loop", "returned"}) =>
          \A f \in TargetFiles :
             \/ \E i \in 1..Len(files_to_process) : files_to_process[i] = f
             \/ FailsToProcess(f)
             \/ f.fname \in Range(processed_file_paths)
C18_Witness ==
    /\ RunCompleted
    /\ ~FailsToProcess(original_file_path)
    /\ original_file_path.fname \in Range(unique_paths)
    /\ \E g \in TargetFiles : FailsToProcess(g) /\ g.fname \notin Range(unique_paths)

-----------------------------------------------------------------------------
(* The contents the Collector is to stage: those of the loose files with a   *)
(* target extension that can be copied, and those of the members with a      *)
(* target extension that can be read, of the archives that can be opened.    *)
CopyableLoose ==
    {l \in scan_directory_recursively_for_data_files(loose_files, processed_extensions) :
        l.readable}
ReadableArchives == {z \in zip_files : Lower(Suffix(z.fname)) = DotZip /\ z.readable}
BadArchives == {z \in zip_files : Lower(Suffix(z.fname)) = DotZip /\ ~z.readable}
MatchingMembers(z) ==
    {z.infolist[i] : i \in {j \in 1..Len(z.infolist) :
         /\ ~z.infolist[j].is_dir
         /\ Lower(Suffix(MemberName(z.infolist[j].filename))) \in processed_extensions
         /\ z.infolist[j].intact}}
ExpectedContents ==
    {l.content : l \in CopyableLoose}
       \cup UNION {{m.content : m \in MatchingMembers(z)} : z \in ReadableArchives}
StagedAndReturned(content) ==
    \E path \in Range(collected) :
       path \in DOMAIN extracted_data /\ extracted_data[path] = content

(* C19: an archive that cannot be opened is skipped and the call goes on:    *)
(* when the call returns after the loop over the top-level items, every      *)
(* loose file and every matching member of every archive that can be opened  *)
(* is staged and in the returned list, whichever archives cannot be opened   *)
(* and wherever they come in the order of the items.                          *)
C19_BadArchiveSkipped ==
    [][(CollectReturn /\ staging_ok) =>
          \A content \in ExpectedContents : StagedAndReturned(content)']_vars
C19_Witness ==
    /\ col_pc = "returned"
    /\ staging_ok
    /\ BadArchives # {}
    /\ \E z \in ReadableArchives : MatchingMembers(z) # {}
    /\ CopyableLoose # {}
    /\ \A content \in ExpectedContents : StagedAndReturned(content)

-----------------------------------------------------------------------------
(* C20: the list the Collector returns is sorted and without duplicates, its *)
(* paths are exactly the paths of the files the call has copied or extracted *)
(* whole, and each of them is a file directly inside the staging directory.  *)
(* The call starts its record empty, every copy and extraction adds to the   *)
(* record exactly the file it has written whole, and the list returned is    *)
(* the record, sorted.                                                        *)
StrictlySorted(paths) ==
    \A i, j \in 1..Len(paths) : i < j => StrLess(paths[i], paths[j])
DirectlyInside(staged, path) ==
    /\ path # <<>>
    /\ "/" \notin Range(path)
    /\ path \in DOMAIN staged
    /\ staged[path] # "partial"
WrittenWhole(staged_before, staged_after) ==
    {path \in DOMAIN staged_after :
        /\ path \notin DOMAIN staged_before \/ staged_after[path] # staged_before[path]
        /\ staged_after[path] # "partial"}
C20_ReturnedList ==
    [][/\ ScanLoose => all_data_file_paths' = <<>>
       /\ (CopyLoose \/ ExtractMember) =>
             /\ Range(all_data_file_paths') \ Range(all_data_file_paths) =
                   WrittenWhole(extracted_data, extracted_data')
             /\ Len(all_data_file_paths') - Len(all_data_file_paths) =
                   Cardinality(WrittenWhole(extracted_data, extracted_data'))
       /\ (OpenZip \/ CloseZip \/ ListTopLevel) =>
             /\ all_data_file_paths' = all_data_file_paths
             /\ extracted_data' = extracted_data
       /\ (CollectReturn \/ ListTopLevelFails \/ NotAFolder) =>
             /\ StrictlySorted(collected')
             /\ Range(collected') = Range(all_data_file_paths')
             /\ \A i \in 1..Len(collected') : DirectlyInside(extracted_data', collected'[i])
             /\ extracted_data' = extracted_data
      ]_vars
C20_Witness ==
    /\ col_pc = "returned"
    /\ collect_runs = 2
    /\ Len(collected) >= 2
    /\ \E path \in DOMAIN extracted_data :
          path \notin Range(collected) /\ extracted_data[path] # "partial"
    /\ \E path \in DOMAIN extracted_data : extracted_data[path] = "partial"

-----------------------------------------------------------------------------
(* C21: a phase whose input directory is missing, is not a directory or      *)
(* cannot be listed does not raise and returns an empty result: the          *)
(* Collector and the Normalizer an empty list, the Loader an empty mapping.  *)
C21_EmptyResultOnBadInput ==
    /\ (~cleaned_is_dir /\ pc \in {"returned", "raised"}) =>
          (pc = "returned" /\ import_status = EmptyMap)
    /\ (folder_kind # "dir" /\ col_pc = "returned") => collected = <<>>
    /\ (~input_is_dir /\ cln_pc = "returned") => unique_paths = <<>>
    /\ cln_pc # "raised"

-----------------------------------------------------------------------------
(* C22: in the text of every statement the Loader sends, the schema name,    *)
(* the table name and every column name stand between double quotes as       *)
(* identifiers, and the values of the catalog query stand as quoted          *)
(* literals.                                                                  *)
AppearsAsIdentifier(parts, string) ==
    Contains(as_string(parts), part_as_string(Identifier(string)))
AppearsAsLiteral(parts, string) ==
    Contains(as_string(parts), part_as_string(Literal(string)))
C22_DynamicNamesQuoted ==
    /\ pc = "schema" =>
          AppearsAsIdentifier(create_schema_query(schema_name), schema_name)
    /\ pc = "create" =>
          /\ AppearsAsIdentifier(create_table_query(schema_name, table_name, final_columns),
                                 schema_name)
          /\ AppearsAsIdentifier(create_table_query(schema_name, table_name, final_columns),
                                 table_name)
          /\ \A i \in 1..Len(final_columns) :
                AppearsAsIdentifier(
                    create_table_query(schema_name, table_name, final_columns),
                    final_columns[i])
    /\ pc = "catalog" =>
          /\ AppearsAsLiteral(columns_query(schema_name, table_name), schema_name)
          /\ AppearsAsLiteral(columns_query(schema_name, table_name), table_name)
    /\ pc = "copy" =>
          /\ AppearsAsIdentifier(copy_query(schema_name, table_name), schema_name)
          /\ AppearsAsIdentifier(copy_query(schema_name, table_name), table_name)

-----------------------------------------------------------------------------
(* C23: for a CSV file in the top level of the source folder that has its    *)
(* header in the first line, after Collector, Normalizer and Loader have run *)
(* without a fault of the store, the schema holds a table named by the       *)
(* sanitized file stem, with the sanitized header cells as columns in their  *)
(* order and one row for each data row of the file, and the mapping has the  *)
(* entry of the file name with the success message for that table.           *)
SourceFile == CHOOSE f \in loose_files : TRUE
SanitizedHeader(f) ==
    [i \in 1..Len(f.content[1]) |-> sanitize_identifier(f.content[1][i], TRUE)]
DataRowCount(f) == Len(SelectSeq(Tail(f.content), HasContent))
PipelineRan == pc = "returned" /\ faults_used = 0 /\ ~conn_error /\ loose_files # {}
C23_EndToEnd ==
    PipelineRan =>
       /\ sanitize_identifier(SourceFile.fname, FALSE) \in DOMAIN db.committed
       /\ db.committed[sanitize_identifier(SourceFile.fname, FALSE)] =
             [cols |-> SanitizedHeader(SourceFile), rows |-> DataRowCount(SourceFile)]
       /\ SourceFile.fname \in DOMAIN import_status
       /\ import_status[SourceFile.fname].kind = "success"
       /\ import_status[SourceFile.fname].table = sanitize_identifier(SourceFile.fname, FALSE)

-----------------------------------------------------------------------------
(* C24: the recursive scan of the Collector selects no file that lies in the *)
(* staging directory extracted_data, and no iteration of the copy loop takes *)
(* its source from there: the files selected and copied are files of the     *)
(* source folder outside extracted_data (source files, or files of the       *)
(* cleaned_data folder), also in a call that finds the staging directory     *)
(* filled by an earlier call.                                                *)
LiesInStaging(item) == item.dir # <<>> /\ Head(item.dir) = ExtractedDataName
C24_StagingNeverScanned ==
    [][/\ ScanLoose =>
             \A i \in 1..Len(loose_original_paths') :
                 /\ ~LiesInStaging(loose_original_paths'[i])
                 /\ loose_original_paths'[i] \in loose_files \cup CleanedAsLoose(cleaned_data)
       /\ CopyLoose =>
             /\ ~LiesInStaging(Head(loose_original_paths))
             /\ Head(loose_original_paths) \in loose_files \cup CleanedAsLoose(cleaned_data)
      ]_vars
C24_Witness ==
    /\ col_pc = "loose"
    /\ collect_runs = 2
    /\ loose_original_paths # <<>>
    /\ \E n \in DOMAIN extracted_data : Lower(Suffix(n)) \in processed_extensions
    /\ Len(all_data_file_paths) >= 1

-----------------------------------------------------------------------------
(* C25: in the CRDC import script the mode decides what happens to a table   *)
(* that exists when a file is processed. As stated: in import_missing mode   *)
(* no existing table changes; in overwrite_all mode the table of the file is *)
(* dropped without a prompt and the file imported; in normal mode that is    *)
(* done if and only if the answer to the prompt is 'y'; a table that does    *)
(* not exist is imported in every mode without a prompt. Import means: the   *)
(* table holds the sanitized header of the file as columns and its rows.     *)
FileDone == crdc_pc \in {"main", "done"} /\ crdc_file # NoCrdcFile
IsTableFile(f) == Lower(Suffix(f.fname)) \in {DotCsv, DotXlsx, DotXls}
Existed == crdc_tbl \in DOMAIN crdc_before
Importable(f) ==
    /\ f.header # <<>>
    /\ \A i, j \in 1..Len(f.header) :
          i # j => crdc_sanitize_column_name(f.header[i], i - 1)
                      # crdc_sanitize_column_name(f.header[j], j - 1)
FreshTable(f) ==
    [source |-> f.fname,
     cols |-> [i \in 1..Len(f.header) |-> crdc_sanitize_column_name(f.header[i], i - 1)],
     rows |-> f.nrows]
Imported ==
    IF Importable(crdc_file)
    THEN crdc_tbl \in DOMAIN crdc_store /\ crdc_store[crdc_tbl] = FreshTable(crdc_file)
    ELSE crdc_tbl \notin DOMAIN crdc_store
Untouched(t) == t \in DOMAIN crdc_store /\ crdc_store[t] = crdc_before[t]
AnswerIsYes == crdc_answers # <<>> /\ Lower(StripClass(crdc_answers[1], StrWhitespace)) = <<"y">>
-----------------------------------------------------------------------------
(* consensus.py, main, lines 44-117 *)
ConsensusInit ==
    /\ SanIdle
    /\ final_columns = <<>>
    /\ LoadIdle
    /\ CollectIdle
    /\ CleanIdle
    /\ CrdcIdle
    /\ cns_pc = "initial"
    /\ agents \in 1..MaxAgents
    /\ tasks \in 1..MaxTasks
    /\ cns_k = 0
    /\ cns_i = 0
    /\ cns_j = 0
    /\ initial_responses = <<>>
    /\ critiqued_responses = <<>>
    /\ refined_responses = <<>>
    /\ approved = [i \in 0..(agents - 1) |-> <<>>]

ConsensusUnchanged == UNCHANGED <<san_vars, load_vars, col_vars, cln_vars, crdc_vars>>

(* lines 45-72: the window of agent i; line 64 makes a new list, and every  *)
(* approval in the window appends to it                                      *)
ShowInterface ==
    /\ cns_pc = "initial"
    /\ \E c \in 0..MaxApprovals :
          initial_responses' = [x \in 1..c |-> Response(cns_i, cns_k, x)]
    /\ approved' = [approved EXCEPT ![cns_i] = initial_responses']
    /\ IF cns_i + 1 < agents
       THEN /\ cns_i' = cns_i + 1
            /\ UNCHANGED <<cns_pc, critiqued_responses>>
       ELSE /\ cns_i' = 0
            /\ cns_pc' = "critique"
            /\ critiqued_responses' = NoCritiques(agents)
    /\ cns_j' = 0
    /\ UNCHANGED <<agents, tasks, cns_k, refined_responses>>
    /\ ConsensusUnchanged

(* lines 47-51: the configuration read again has lost task k *)
TaskOutOfRange ==
    /\ cns_pc = "initial"
    /\ cns_pc' = "raised"
    /\ UNCHANGED <<agents, tasks, cns_k, cns_i, cns_j, initial_responses,
                   critiqued_responses, refined_responses, approved>>
    /\ ConsensusUnchanged

(* lines 77-81: one step of the two loops of step 2 *)
Critique ==
    /\ cns_pc = "critique"
    /\ cns_i < agents
    /\ IF cns_j < Len(initial_responses)
       THEN /\ critiqued_responses' =
                  IF cns_i # cns_j
                  THEN [critiqued_responses EXCEPT ![cns_i][cns_j] =
                           get_response(cns_i, critique_prompt(initial_responses[cns_j + 1]))]
                  ELSE critiqued_responses
            /\ cns_j' = cns_j + 1
            /\ cns_i' = cns_i
       ELSE /\ cns_i' = cns_i + 1
            /\ cns_j' = 0
            /\ UNCHANGED critiqued_responses
    /\ UNCHANGED <<cns_pc, agents, tasks, cns_k, initial_responses, refined_responses,
                   approved>>
    /\ ConsensusUnchanged

(* lines 84-85: step 2 is over *)
CritiqueDone ==
    /\ cns_pc = "critique"
    /\ cns_i = agents
    /\ cns_pc' = "refine"
    /\ cns_i' = 0
    /\ refined_responses' = <<>>
    /\ UNCHANGED <<agents, tasks, cns_k, cns_j, initial_responses, critiqued_responses,
                   approved>>
    /\ ConsensusUnchanged

(* lines 85-88: one iteration of step 3 *)
Refine ==
    /\ cns_pc = "refine"
    /\ cns_i < agents
    /\ refined_responses' =
          Append(refined_responses,
                 get_response(cns_i, refine_prompt(
                     critiques_for_agent(critiqued_responses, cns_i, 0, agents))))
    /\ cns_i' = cns_i + 1
    /\ UNCHANGED <<cns_pc, agents, tasks, cns_k, cns_j, initial_responses,
                   critiqued_responses, approved>>
    /\ ConsensusUnchanged

(* lines 91-117: the window of the harmonizer, then the next task *)
Harmonize ==
    /\ cns_pc = "refine"
    /\ cns_i = agents
    /\ cns_i' = 0
    /\ IF cns_k + 1 < tasks
       THEN /\ cns_k' = cns_k + 1
            /\ cns_pc' = "initial"
            /\ approved' = [i \in 0..(agents - 1) |-> <<>>]
       ELSE /\ cns_pc' = "done"
            /\ UNCHANGED <<cns_k, approved>>
    /\ UNCHANGED <<agents, tasks, cns_j, initial_responses, critiqued_responses,
                   refined_responses>>
    /\ ConsensusUnchanged

ConsensusNext ==
    \/ ShowInterface
    \/ TaskOutOfRange
    \/ Critique
    \/ CritiqueDone
    \/ Refine
    \/ Harmonize

SpecConsensus == ConsensusInit /\ [][ConsensusNext]_vars

-----------------------------------------------------------------------------
(* C26: for each task, when every agent's window has had its response        *)
(* approved (once), then after step 2 critiqued_responses[i][j] is agent i's *)
(* critique of the approved response of agent j for every i # j, and None    *)
(* for i = j: no agent is asked about its own response.                      *)
AllApproved == \A i \in 0..(agents - 1) : Len(approved[i]) = 1
C26_CritiquesOfOthers ==
    (cns_pc = "refine" /\ AllApproved) =>
       \A i, j \in 0..(agents - 1) :
          critiqued_responses[i][j] =
             IF i = j THEN None
             ELSE [agent |-> i, prompt |-> [flaws_of |-> approved[j][1]]]

-----------------------------------------------------------------------------
(* C27: a second run of the Collector on the same source folder, also after  *)
(* the Normalizer has written cleaned_data, adds no file to the staging      *)
(* directory: from the start of the second run on, extracted_data keeps the  *)
(* set of files the first run left.                                          *)
C27_SecondRunStagesNothing ==
    [][collect_runs >= 2 => DOMAIN extracted_data' = DOMAIN extracted_data]_vars

-----------------------------------------------------------------------------
(* C28: the result of the Loader does not depend on the order in which the   *)
(* folder lists the files: a run in which no call of the store fails ends    *)
(* with the tables and the outcomes that the loop gives for every order of   *)
(* the eligible files, starting from a store without tables.                 *)
EligibleFiles == {f \in cleaned_files : Lower(Suffix(f.fname)) \in target_extensions}
TablesAfterFile(f, tables) ==
    IF FaultFreeOutcome(f, tables) \in {"success", "success_excel"}
    THEN Copy(CreateTable(tables, sanitize_identifier(f.fname, FALSE), FinalColumns(f.header)),
              sanitize_identifier(f.fname, FALSE), f.nrows)
    ELSE tables
RECURSIVE LoopResult(_, _, _)
LoopResult(order, tables, kinds) ==
    IF order = <<>> THEN [tables |-> tables, kinds |-> kinds]
    ELSE LoopResult(Tail(order), TablesAfterFile(Head(order), tables),
                    IF FaultFreeOutcome(Head(order), tables) = "none" THEN kinds
                    ELSE Put(kinds, Head(order).fname,
                             FaultFreeOutcome(Head(order), tables)))
LoaderResult ==
    [tables |-> db.committed,
     kinds |-> [n \in DOMAIN import_status |-> import_status[n].kind]]
FaultFreeFirstRun ==
    /\ pc = "returned"
    /\ runs = 1
    /\ faults_used = 0
    /\ ~conn_error
    /\ EligibleFiles # {}
C28_OrderIndependent ==
    FaultFreeFirstRun =>
       \A order \in Orders(EligibleFiles) : LoopResult(order, EmptyMap, EmptyMap) = LoaderResult

-----------------------------------------------------------------------------
(* C29: when a call of the Normalizer has returned, the files of             *)
(* cleaned_data are exactly the files of the returned list: a file whose     *)
(* processing failed has left no output there, complete or partial.          *)
C29_OutputIsReturnedList ==
    (cln_pc = "returned" /\ input_is_dir /\ mkdir_ok) =>
       DOMAIN cleaned_data = Range(unique_paths)

-----------------------------------------------------------------------------
(* C30: when the outcome recorded for a file is a failure, the store holds   *)
(* no table that it did not hold when the Loader started on that file.       *)
FailureKinds == {"db_error", "non_db_error", "excel_error", "excel_empty", "mismatch"}
FileFailed ==
    /\ pc \in {"loop", "returned"}
    /\ file_path # NoFile
    /\ file_path.fname \in DOMAIN import_status
    /\ import_status[file_path.fname].kind \in FailureKinds
C30_FailureLeavesNoTable ==
    FileFailed => DOMAIN db.committed \subseteq DOMAIN before

====
